---- MODULE Spec2Model ----
(***************************************************************************)
(* Career-Guide-Logic: the three-stage scoring engine (CJL-PRO/engine.py,  *)
(* CJL-PRO/run.py) and the section-based scorer (CJL/scoring.py).          *)
(*                                                                         *)
(* Numbers.  The program computes in floating point; the model computes    *)
(* in integers:                                                            *)
(*   - question weights and raw trait totals are in tenths (1.0 = 10);     *)
(*   - a normalised trait value is the exact fraction num/den;             *)
(*   - taxonomy weights are in hundredths (0.35 = 35);                     *)
(*   - a dot product is in ten-thousandths (0.5 = 5000);                   *)
(*   - an argument of math.exp and an activation are in thousandths;       *)
(*   - a value of math.exp is scaled by 10^8;                              *)
(*   - a percentage is the fraction num/den of hundredths of a percent     *)
(*     (12.34 % = 1234/1).                                                 *)
(***************************************************************************)
EXTENDS Integers, Sequences, FiniteSets, TLC

VARIABLES
    pc,          \* position of run(): which blocking read or step comes next
    demo,        \* run(demo=...): randomized answer source
    traits,      \* the raw trait accumulator of run()
    used_ids,    \* the session's set of used question identifiers
    batch,       \* questions selected by conduct_stage and not yet asked
    asked,       \* how often each identifier was asked and fed to apply_answer
    n_answers,   \* number of apply_answer calls of the session
    stages_run,  \* the stages whose conduct_stage call has started, in order
    keys,        \* the keys with which stage 2 and stage 3 looked up their tables
    norms,       \* question count given to normalise_traits at each stage boundary
    rank1,       \* ranked list of stage 1
    rank2,       \* ranked list of stage 2
    rank3,       \* ranked list of stage 3
    output,      \* the result record run() returns (NoOutput until then)
    exit_code,   \* the process exit status once sys.exit was called (NoExit before)
    fin,         \* input of the pure function under check
    fout         \* its result (NoResult before the call)

vars == <<pc, demo, traits, used_ids, batch, asked, n_answers, stages_run, keys,
          norms, rank1, rank2, rank3, output, exit_code, fin, fout>>

sessionVars == <<pc, demo, traits, used_ids, batch, asked, n_answers, stages_run,
                 keys, norms, rank1, rank2, rank3, output, exit_code>>

fnVars == <<fin, fout>>

(***************************************************************************)
(* Integer helpers                                                         *)
(***************************************************************************)
Max2(a, b) == IF a >= b THEN a ELSE b

Min2(a, b) == IF a <= b THEN a ELSE b

Abs(a) == IF a < 0 THEN -a ELSE a

\* floor(a*k/d) and the remainder, for 0 <= a <= d, by doubling: the product
\* a*k itself may exceed the integer range, no intermediate here exceeds 3*d
RECURSIVE MulDiv(_, _, _)
MulDiv(a, k, d) ==
    IF k = 0 \/ a = 0 \/ d = 0 THEN [q |-> 0, r |-> 0]
    ELSE LET half == MulDiv(a, k \div 2, d)
             rem2 == 2 * half.r + (IF k % 2 = 1 THEN a ELSE 0)
         IN  [q |-> 2 * half.q + rem2 \div d, r |-> rem2 % d]

\* a*k/d rounded to the nearest integer, ties to even (Python's round)
RoundMulDiv(a, k, d) ==
    LET qr == MulDiv(a, k, d)
    IN  IF 2 * qr.r > d THEN qr.q + 1
        ELSE IF 2 * qr.r < d THEN qr.q
        ELSE IF qr.q % 2 = 0 THEN qr.q ELSE qr.q + 1

RECURSIVE MaxSeq(_)
MaxSeq(s) ==
    IF Len(s) = 1 THEN s[1] ELSE Max2(Head(s), MaxSeq(Tail(s)))

RECURSIVE SumSeq(_)
SumSeq(s) == IF s = <<>> THEN 0 ELSE Head(s) + SumSeq(Tail(s))

Range(s) == {s[i] : i \in 1..Len(s)}

(***************************************************************************)
(* engine.py: the trait accumulator                                        *)
(***************************************************************************)
TRAIT_KEYS == <<"apt", "O", "C", "E", "A", "stab", "R", "I", "Art">>

empty_traits == [k \in Range(TRAIT_KEYS) |-> 0]

LIKERT_MAP == [A |-> 2, B |-> 1, C |-> 0, D |-> -1, E |-> -2]

\* str.upper() on the answer labels the model draws
upper(s) ==
    CASE s = "a" -> "A"
      [] s = "b" -> "B"
      [] s = "c" -> "C"
      [] s = "d" -> "D"
      [] s = "e" -> "E"
      [] s = "z" -> "Z"
      [] OTHER -> s

\* a plausible slip: the scale read as 5..1 for A..E
likert_delta_five_to_one(answer) ==
    IF upper(answer) \in DOMAIN LIKERT_MAP THEN LIKERT_MAP[upper(answer)] + 3 ELSE 0

\* a plausible slip: the scale read in the opposite direction
likert_delta_reversed(answer) ==
    IF upper(answer) \in DOMAIN LIKERT_MAP THEN -LIKERT_MAP[upper(answer)] ELSE 0

\* LIKERT_MAP.get(answer.upper(), 0)
likert_delta(answer) ==
    IF upper(answer) \in DOMAIN LIKERT_MAP THEN LIKERT_MAP[upper(answer)] ELSE 0

\* question.get("traits", {})
question_traits(question) ==
    IF "traits" \in DOMAIN question THEN question.traits ELSE <<>>

\* a plausible slip: the delta is added without the question's weight
apply_answer_unweighted(traits_in, question, answer) ==
    [k \in DOMAIN traits_in |->
        IF k \in DOMAIN question_traits(question)
        THEN traits_in[k] + likert_delta(answer)
        ELSE traits_in[k]]

\* a plausible slip: "-=" for "+=" in the update
apply_answer_subtracting(traits_in, question, answer) ==
    [k \in DOMAIN traits_in |->
        IF k \in DOMAIN question_traits(question)
        THEN traits_in[k] - likert_delta(answer) * question_traits(question)[k]
        ELSE traits_in[k]]

\* a plausible slip: "=" for "+=" in the update
apply_answer_overwriting(traits_in, question, answer) ==
    [k \in DOMAIN traits_in |->
        IF k \in DOMAIN question_traits(question)
        THEN likert_delta(answer) * question_traits(question)[k]
        ELSE traits_in[k]]

\* a plausible slip: "updated[trait] = updated.get(trait, 0) + ..." without the
\* test "if trait in updated"
apply_answer_adding_keys(traits_in, question, answer) ==
    [k \in DOMAIN traits_in \cup DOMAIN question_traits(question) |->
        (IF k \in DOMAIN traits_in THEN traits_in[k] ELSE 0)
        + (IF k \in DOMAIN question_traits(question)
           THEN likert_delta(answer) * question_traits(question)[k] ELSE 0)]

apply_answer(traits_in, question, answer) ==
    [k \in DOMAIN traits_in |->
        IF k \in DOMAIN question_traits(question)
        THEN traits_in[k] + likert_delta(answer) * question_traits(question)[k]
        ELSE traits_in[k]]

(***************************************************************************)
(* engine.py: the normaliser.  max_weight is in tenths; a value is the    *)
(* fraction num/den with den = 2*bound.                                    *)
(***************************************************************************)
\* a plausible slip: the count divides where it should multiply
normalise_bound_divided(n_questions, max_weight) ==
    Max2((max_weight * 2) \div Max2(n_questions, 1), 10)

\* a plausible slip: the bound without its floor of 1.0
normalise_bound_unfloored(n_questions, max_weight) == n_questions * max_weight * 2

\* bound = max(n_questions * max_weight * 2, 1.0), in tenths
normalise_bound(n_questions, max_weight) == Max2(n_questions * max_weight * 2, 10)

\* a plausible slip: the linear rescaling without the clamp
normalise_traits_unclamped(raw, n_questions, max_weight) ==
    LET bound == normalise_bound(n_questions, max_weight)
    IN  [k \in DOMAIN raw |-> [num |-> raw[k] + bound, den |-> 2 * bound]]

normalise_traits(raw, n_questions, max_weight) ==
    LET bound == normalise_bound(n_questions, max_weight)
    IN  [k \in DOMAIN raw |->
            [num |-> Max2(0, Min2(2 * bound, raw[k] + bound)), den |-> 2 * bound]]

(***************************************************************************)
(* math.exp in fixed point: the argument in thousandths, the value scaled  *)
(* by 10^8.  Only e^m for m <= 0 is tabulated; the callers below divide    *)
(* numerator and denominator by the largest exponential, which leaves the  *)
(* quotient they compute unchanged.                                        *)
(***************************************************************************)
\* e^-k scaled by 10^8, k = 0..19
ExpUnits == <<100000000, 36787944, 13533528, 4978707, 1831564, 673795, 247875,
              91188, 33546, 12341, 4540, 1670, 614, 226, 83, 31, 11, 4, 2, 1>>

\* e^-(k/10), e^-(k/100), e^-(k/1000) scaled by 10^8, k = 0..9
ExpTenths == <<100000000, 90483742, 81873075, 74081822, 67032005, 60653066,
               54881164, 49658530, 44932896, 40656966>>

ExpHundredths == <<100000000, 99004983, 98019867, 97044553, 96078944, 95122942,
                   94176453, 93239382, 92311635, 91393119>>

ExpThousandths == <<100000000, 99900050, 99800200, 99700450, 99600799, 99501248,
                    99401796, 99302444, 99203191, 99104038>>

\* the product of two values scaled by 10^8, rounded to the nearest unit; the
\* factors are split at 10^4 so that no partial product leaves the integer range
ExpMul(a, b) ==
    LET ah == a \div 10000
        al == a % 10000
        bh == b \div 10000
        bl == b % 10000
    IN  ah * bh + (ah * bl + al * bh + (al * bl) \div 10000 + 5000) \div 10000

\* math.exp raises OverflowError above ln(max double) = 709.78
exp_overflows(m) == m > 709782

\* below -745.13 the double underflows to 0.0
exp_underflows(m) == m < -745133

\* math.exp(m/1000) scaled by 10^8 for m <= 0; under e^-20 the scaled value is 0
math_exp(m) ==
    LET n == -m
    IN  IF n >= 20000 THEN 0
        ELSE ExpMul(ExpMul(ExpUnits[(n \div 1000) + 1],
                           ExpTenths[((n \div 100) % 10) + 1]),
                    ExpMul(ExpHundredths[((n \div 10) % 10) + 1],
                           ExpThousandths[(n % 10) + 1]))

(***************************************************************************)
(* engine.py: the forward pass.  A dict that is iterated in insertion      *)
(* order (activations, probabilities, a taxonomy level) is a sequence of   *)
(* records in that order.                                                  *)
(***************************************************************************)
SIGMOID_SHARPNESS == 10

SOFTMAX_TEMPERATURE == 4

\* -sharpness * (x - 0.5) in thousandths, x in ten-thousandths
sigmoid_arg(x, sharpness) ==
    IF x >= 5000 THEN -((sharpness * (x - 5000)) \div 10)
    ELSE (sharpness * (5000 - x)) \div 10

\* 1.0 / (1.0 + math.exp(a)) in thousandths; for a > 0 it is computed as
\* e^-a / (e^-a + 1.0)
logistic(a) ==
    IF a <= 0
    THEN RoundMulDiv(10000 * 10000, 1000, 10000 * 10000 + math_exp(a))
    ELSE RoundMulDiv(math_exp(-a), 1000, 10000 * 10000 + math_exp(-a))

\* 1.0 / (1.0 + math.exp(-sharpness * (x - 0.5))), saturating on OverflowError
_sigmoid(x, sharpness) ==
    IF exp_overflows(sigmoid_arg(x, sharpness))
    THEN (IF x < 5000 THEN 0 ELSE 1000)
    ELSE logistic(sigmoid_arg(x, sharpness))

\* the largest argument of math.exp among the values that do not overflow
softmax_top(scores, temperature) ==
    LET exp_args == [i \in 1..Len(scores) |->
                    IF exp_overflows(scores[i].val * temperature) THEN -800000
                    ELSE scores[i].val * temperature]
    IN  IF scores = <<>> THEN 0 ELSE MaxSeq(exp_args)

\* exp_vals of _softmax: math.exp(v * temperature), float("inf") on
\* OverflowError; the finite values of one call are all divided by e^shift
softmax_exp(v, temperature, shift) ==
    IF exp_overflows(v * temperature) THEN [inf |-> TRUE, val |-> 0]
    ELSE IF exp_underflows(v * temperature) THEN [inf |-> FALSE, val |-> 0]
    ELSE [inf |-> FALSE, val |-> math_exp(v * temperature - shift)]

\* total = sum(exp_vals.values()) or 1.0, over the finite values
softmax_total(exps) ==
    LET s == SumSeq([i \in 1..Len(exps) |-> exps[i].val])
    IN  IF s = 0 THEN 10000 * 10000 ELSE s

\* a plausible slip: share = 100.0, not divided by len(inf_keys)
inf_share_undivided(n_inf) == [num |-> 10000, den |-> 1]

\* share = 100.0 / len(inf_keys)
inf_share(n_inf) == [num |-> 10000, den |-> n_inf]

\* a plausible slip: no inf_keys branch, so an infinite value is divided by the
\* infinite total (inf/inf, not a number: 0/0 here) and a finite one gives 0.0
_softmax_no_inf_split(scores, temperature) ==
    LET exp_top == softmax_top(scores, temperature)
        exps == [i \in 1..Len(scores) |->
                    softmax_exp(scores[i].val, temperature, exp_top)]
        n_inf == Cardinality({i \in 1..Len(exps) : exps[i].inf})
        total == softmax_total(exps)
    IN  [i \in 1..Len(scores) |->
            [name |-> scores[i].name,
             pct  |-> IF n_inf > 0
                      THEN [num |-> 0, den |-> IF exps[i].inf THEN 0 ELSE 1]
                      ELSE [num |-> RoundMulDiv(exps[i].val, 10000, total),
                            den |-> 1]]]

_softmax(scores, temperature) ==
    LET exp_top == softmax_top(scores, temperature)
        exps == [i \in 1..Len(scores) |->
                    softmax_exp(scores[i].val, temperature, exp_top)]
        n_inf == Cardinality({i \in 1..Len(exps) : exps[i].inf})
        total == softmax_total(exps)
    IN  [i \in 1..Len(scores) |->
            [name |-> scores[i].name,
             pct  |-> IF n_inf > 0
                      THEN (IF exps[i].inf THEN inf_share(n_inf)
                            ELSE [num |-> 0, den |-> n_inf])
                      ELSE [num |-> RoundMulDiv(exps[i].val, 10000, total),
                            den |-> 1]]]

RECURSIVE SumOver(_, _)
SumOver(S, f) ==
    IF S = {} THEN 0
    ELSE LET x == CHOOSE y \in S : TRUE IN f[x] + SumOver(S \ {x}, f)

\* weights.get(t, 0.0) * norm_traits.get(t, 0.5), in ten-thousandths
dot_term(weights, norm_traits, t) ==
    IF t \in DOMAIN norm_traits
    THEN (weights[t] * 100 * norm_traits[t].num) \div norm_traits[t].den
    ELSE weights[t] * 50

node_dot(weights, norm_traits) ==
    SumOver(DOMAIN weights, [t \in DOMAIN weights |-> dot_term(weights, norm_traits, t)])

\* a plausible slip: the activations returned as percentages, without _softmax
score_nodes_activations(nodes, norm_traits) ==
    [i \in 1..Len(nodes) |->
        [name |-> nodes[i].name,
         pct  |-> [num |-> 10 * _sigmoid(node_dot(nodes[i].trait_weights, norm_traits),
                                         SIGMOID_SHARPNESS),
                   den |-> 1]]]

score_nodes(nodes, norm_traits) ==
    _softmax([i \in 1..Len(nodes) |->
                 [name |-> nodes[i].name,
                  val  |-> _sigmoid(node_dot(nodes[i].trait_weights, norm_traits),
                                    SIGMOID_SHARPNESS)]],
             SOFTMAX_TEMPERATURE)

(***************************************************************************)
(* run.py: ranked_nodes.  sorted(..., reverse=True) is stable: elements    *)
(* that compare equal keep their original order.                           *)
(***************************************************************************)
PctLess(a, b) == a.num * b.den < b.num * a.den

PctEq(a, b) == a.num * b.den = b.num * a.den

\* x placed after every element whose percentage is not lower than x's
InsertDesc(sorted, x) ==
    LET before == {i \in 1..Len(sorted) : ~PctLess(sorted[i].pct, x.pct)}
        k == Cardinality(before)
    IN  SubSeq(sorted, 1, k) \o <<x>> \o SubSeq(sorted, k + 1, Len(sorted))

\* x placed before every element whose percentage is not higher than x's
InsertDescTiesFirst(sorted, x) ==
    LET before == {i \in 1..Len(sorted) : PctLess(x.pct, sorted[i].pct)}
        k == Cardinality(before)
    IN  SubSeq(sorted, 1, k) \o <<x>> \o SubSeq(sorted, k + 1, Len(sorted))

RECURSIVE SortDesc(_, _)
SortDesc(done, rest) ==
    IF rest = <<>> THEN done ELSE SortDesc(InsertDesc(done, Head(rest)), Tail(rest))

RECURSIVE SortDescTiesFirst(_, _)
SortDescTiesFirst(done, rest) ==
    IF rest = <<>> THEN done
    ELSE SortDescTiesFirst(InsertDescTiesFirst(done, Head(rest)), Tail(rest))

\* a plausible slip: sorted(...)[::-1], which reverses the order of ties
ranked_nodes_reversed(probs) == SortDescTiesFirst(<<>>, probs)

\* the (name, pct) pairs of ranked_nodes; the cfg it carries along is display data
ranked_nodes(probs) == SortDesc(<<>>, probs)

(***************************************************************************)
(* engine.py: select_questions.  random.shuffle makes the result one of    *)
(* several; the operator is the set of lists the call can return.          *)
(***************************************************************************)
\* the lists of k elements of s at pairwise different positions
Arrangements(s, k) ==
    {[i \in 1..k |-> s[f[i]]] :
        f \in {g \in [1..k -> 1..Len(s)] :
                  \A i, j \in 1..k : i # j => g[i] # g[j]}}

\* 1.0 - abs(current - 0.5) * 2, in ten-thousandths
uncertainty(norm_traits, t) ==
    IF t \in DOMAIN norm_traits
    THEN (10000 * (norm_traits[t].den
                   - Abs(2 * norm_traits[t].num - norm_traits[t].den)))
         \div norm_traits[t].den
    ELSE 10000

informativeness(q, norm_traits) ==
    SumOver(DOMAIN question_traits(q),
            [t \in DOMAIN question_traits(q) |->
                uncertainty(norm_traits, t) * question_traits(q)[t]])

\* a plausible slip: the sort without reverse=True
InsertByInfo_ascending(sorted, x, norm_traits) ==
    LET before == {i \in 1..Len(sorted) :
                      informativeness(sorted[i], norm_traits)
                          <= informativeness(x, norm_traits)}
        k == Cardinality(before)
    IN  SubSeq(sorted, 1, k) \o <<x>> \o SubSeq(sorted, k + 1, Len(sorted))

\* x placed after every element whose informativeness is not lower than x's
InsertByInfo(sorted, x, norm_traits) ==
    LET before == {i \in 1..Len(sorted) :
                      informativeness(sorted[i], norm_traits)
                          >= informativeness(x, norm_traits)}
        k == Cardinality(before)
    IN  SubSeq(sorted, 1, k) \o <<x>> \o SubSeq(sorted, k + 1, Len(sorted))

RECURSIVE SortByInfo(_, _, _)
SortByInfo(done, rest, norm_traits) ==
    IF rest = <<>> THEN done
    ELSE SortByInfo(InsertByInfo(done, Head(rest), norm_traits), Tail(rest),
                    norm_traits)

\* a plausible slip: the filter on used_ids is left out
available_unfiltered(pool, used) == pool

\* available = [q for q in pool if q["id"] not in used_ids]
available_questions(pool, used) == SelectSeq(pool, LAMBDA q : q.id \notin used)

\* a plausible slip: "return top" for "return top[:n]" in the adaptive branch
select_questions_uncut(pool, n, used, norm_traits) ==
    LET available == available_questions(pool, used)
        sorted == SortByInfo(<<>>, available, norm_traits)
        top == SubSeq(sorted, 1, Min2(2 * n, Len(sorted)))
    IN  IF DOMAIN norm_traits # {}
        THEN Arrangements(top, Len(top))
        ELSE Arrangements(available, Min2(n, Len(available)))

\* norm_traits is <<>> when the caller passes none ("if norm_traits:" is false)
select_questions(pool, n, used, norm_traits) ==
    LET available == available_questions(pool, used)
        sorted == SortByInfo(<<>>, available, norm_traits)
        top == SubSeq(sorted, 1, Min2(2 * n, Len(sorted)))
    IN  IF DOMAIN norm_traits # {}
        THEN Arrangements(top, Min2(n, Len(top)))
        ELSE Arrangements(available, Min2(n, Len(available)))

(***************************************************************************)
(* taxonomy.py: an excerpt of the three-level tree with the weights of the *)
(* source.  A level is a sequence of nodes in the insertion order of its   *)
(* dict.  Of the sub-fields kept, "Computer Science" and "Software         *)
(* Development" have a specialization set in the source and "Chemical      *)
(* Sciences", "Cybersecurity" and "Performing Arts" have none.             *)
(***************************************************************************)
Node(name, weights) == [name |-> name, trait_weights |-> weights]

FIELDS ==
    << Node("Science",
            ("apt" :> 30 @@ "I" :> 35 @@ "O" :> 20 @@ "C" :> 10 @@ "stab" :> 5)),
       Node("Technology",
            ("apt" :> 30 @@ "I" :> 25 @@ "R" :> 20 @@ "C" :> 15 @@ "O" :> 10)),
       Node("Arts & Humanities",
            ("Art" :> 40 @@ "O" :> 30 @@ "E" :> 12 @@ "A" :> 10 @@ "stab" :> 8)) >>

SUB_FIELDS ==
    [ Science |->
        << Node("Computer Science",
                ("apt" :> 35 @@ "I" :> 35 @@ "C" :> 20 @@ "O" :> 10)),
           Node("Chemical Sciences",
                ("apt" :> 30 @@ "I" :> 35 @@ "C" :> 25 @@ "O" :> 10)) >>,
      Technology |->
        << Node("Software Development",
                ("apt" :> 35 @@ "I" :> 30 @@ "C" :> 25 @@ "O" :> 10)),
           Node("Cybersecurity",
                ("apt" :> 30 @@ "I" :> 30 @@ "C" :> 25 @@ "stab" :> 15)) >> ]
    @@ ("Arts & Humanities" :>
        << Node("Performing Arts",
                ("Art" :> 35 @@ "E" :> 30 @@ "O" :> 20 @@ "stab" :> 15)),
           Node("Film & Media Production",
                ("Art" :> 30 @@ "E" :> 25 @@ "O" :> 25 @@ "C" :> 20)) >>)

SPECIALIZATIONS ==
    ("Software Development" :>
        << Node("Backend Engineering",
                ("apt" :> 35 @@ "I" :> 30 @@ "C" :> 25 @@ "O" :> 10)),
           Node("Frontend Engineering",
                ("Art" :> 25 @@ "apt" :> 25 @@ "I" :> 25 @@ "O" :> 15 @@ "C" :> 10)),
           Node("Game Development",
                ("Art" :> 25 @@ "apt" :> 25 @@ "I" :> 25 @@ "O" :> 15 @@ "C" :> 10)) >>)
    @@ ("Computer Science" :>
        << Node("AI & Machine Learning",
                ("apt" :> 35 @@ "I" :> 40 @@ "O" :> 15 @@ "C" :> 10)),
           Node("Human-Computer Interaction",
                ("I" :> 25 @@ "Art" :> 25 @@ "A" :> 25 @@ "E" :> 25)) >>)
    @@ ("_default_" :>
        << Node("Core Track",
                ("apt" :> 25 @@ "I" :> 25 @@ "C" :> 25 @@ "O" :> 25)),
           Node("Research & Theory",
                ("I" :> 40 @@ "O" :> 30 @@ "C" :> 20 @@ "apt" :> 10)),
           Node("Applied Practice",
                ("A" :> 30 @@ "E" :> 25 @@ "C" :> 25 @@ "stab" :> 20)) >>)

(***************************************************************************)
(* stage_questions.py (imported by run.py, run.py:30): the question pools. *)
(* Identifiers are unique within a pool; "s1_01" and "s1_02" also occur in *)
(* a stage-2 pool; "lead" is a trait key the accumulator does not have.    *)
(***************************************************************************)
Question(id, weights) == [id |-> id, traits |-> weights]

STAGE1_QUESTIONS ==
    << Question("s1_01", ("I" :> 10 @@ "apt" :> 5)),
       Question("s1_02", ("Art" :> 10)),
       Question("s1_03", ("R" :> 10 @@ "lead" :> 10)) >>

STAGE2_QUESTIONS ==
    [ Science |->
        << Question("s1_01", ("I" :> 10 @@ "apt" :> 5)),
           Question("s2_sci_01", ("apt" :> 10)) >>,
      Technology |->
        << Question("s2_tec_01", ("C" :> 10)),
           Question("s2_tec_02", ("stab" :> 20 @@ "R" :> -5)) >> ]
    @@ ("Arts & Humanities" :>
        << Question("s1_02", ("Art" :> 10)),
           Question("s2_art_01", ("E" :> 10)) >>)

STAGE3_QUESTIONS ==
    ("Software Development" :>
        << Question("s3_sw_01", ("Art" :> 10)),
           Question("s3_sw_02", ("C" :> 10)) >>)
    @@ ("Computer Science" :>
        << Question("s3_cs_01", ("A" :> 10 @@ "E" :> 10)),
           Question("s3_cs_02", ("I" :> 10)) >>)
    @@ ("_default_" :>
        << Question("s3_def_01", ("A" :> 10)),
           Question("s3_def_02", ("O" :> 10)) >>)

QuestionIds ==
    {STAGE1_QUESTIONS[i].id : i \in 1..Len(STAGE1_QUESTIONS)}
    \cup UNION {{STAGE2_QUESTIONS[k][i].id : i \in 1..Len(STAGE2_QUESTIONS[k])} :
                   k \in DOMAIN STAGE2_QUESTIONS}
    \cup UNION {{STAGE3_QUESTIONS[k][i].id : i \in 1..Len(STAGE3_QUESTIONS[k])} :
                   k \in DOMAIN STAGE3_QUESTIONS}

(***************************************************************************)
(* run.py: the session                                                     *)
(***************************************************************************)
\* questions per stage: n1, n2, n3 of run() (18, 15, 12 in the source)
STAGE1_N == 2

STAGE2_N == 1

STAGE3_N == 1

\* max_weight of normalise_traits when the caller passes none (2.0), in tenths
DEFAULT_MAX_WEIGHT == 20

\* what ask_question can return: OPTION_KEYS[:len(options)] with five options
OPTION_KEYS == {"A", "B", "C", "D", "E"}

StageN(stage) ==
    CASE stage = 1 -> STAGE1_N
      [] stage = 2 -> STAGE2_N
      [] OTHER -> STAGE3_N

NoKeys == [s2_pool |-> "", s2_tax |-> "", s3_pool |-> "", s3_tax |-> ""]

NoOutput == [written |-> FALSE]

SessionInit ==
    /\ pc = "prompt1"
    /\ demo \in BOOLEAN
    /\ traits = empty_traits
    /\ used_ids = {}
    /\ batch = <<>>
    /\ asked = [q \in QuestionIds |-> 0]
    /\ n_answers = 0
    /\ stages_run = <<>>
    /\ keys = NoKeys
    /\ norms = <<>>
    /\ rank1 = <<>>
    /\ rank2 = <<>>
    /\ rank3 = <<>>
    /\ output = NoOutput
    /\ exit_code = <<>>

\* norm of conduct_stage: normalise_traits(trait_acc, max(len(used_ids), 1))
conduct_stage_norm ==
    normalise_traits(traits, Max2(Cardinality(used_ids), 1), DEFAULT_MAX_WEIGHT)

\* conduct_stage up to its loop: normalise, then select the batch
conduct_stage_select(stage, questions) ==
    /\ batch' \in select_questions(questions, StageN(stage), used_ids,
                                   conduct_stage_norm)
    /\ stages_run' = Append(stages_run, stage)

\* run(): the ENTER prompt (skipped in demo mode), then conduct_stage(1, ...)
BeginStage1 ==
    /\ pc = "prompt1"
    /\ conduct_stage_select(1, STAGE1_QUESTIONS)
    /\ pc' = "ask1"
    /\ UNCHANGED <<demo, traits, used_ids, asked, n_answers, keys, norms,
                   rank1, rank2, rank3, output, exit_code, fnVars>>

\* one pass of the loop of conduct_stage: ask, apply_answer, used_ids.add
AnswerQuestion ==
    /\ pc \in {"ask1", "ask2", "ask3"}
    /\ batch # <<>>
    /\ \E ans \in OPTION_KEYS :
          traits' = apply_answer(traits, Head(batch), ans)
    /\ used_ids' = used_ids \cup {Head(batch).id}
    /\ asked' = [asked EXCEPT ![Head(batch).id] = @ + 1]
    /\ n_answers' = n_answers + 1
    /\ batch' = Tail(batch)
    /\ UNCHANGED <<pc, demo, stages_run, keys, norms, rank1, rank2, rank3,
                   output, exit_code, fnVars>>

\* a plausible slip: the size of the current stage's batch for the running count
used_count_of_stage == StageN(Len(stages_run))

\* len(used_ids), the question count passed to normalise_traits for scoring
used_count == Cardinality(used_ids)

\* norm1, probs1, rank1 of run()
ScoreStage1 ==
    /\ pc = "ask1"
    /\ batch = <<>>
    /\ rank1' = ranked_nodes(score_nodes(FIELDS,
                    normalise_traits(traits, used_count,
                                     DEFAULT_MAX_WEIGHT)))
    /\ norms' = Append(norms, used_count)
    /\ pc' = "prompt2"
    /\ UNCHANGED <<demo, traits, used_ids, batch, asked, n_answers, stages_run,
                   keys, rank2, rank3, output, exit_code, fnVars>>

\* s2_pool_key: top_field if it has a pool, else random.choice of the pool keys
stage2_pool_keys(top_field) ==
    IF top_field \in DOMAIN STAGE2_QUESTIONS THEN {top_field}
    ELSE DOMAIN STAGE2_QUESTIONS

\* the key under which SUB_FIELDS.get(top_field, {}) finds a set ("" for none)
stage2_tax_key(top_field) ==
    IF top_field \in DOMAIN SUB_FIELDS THEN top_field ELSE ""

\* run(): the ENTER prompt, the stage-2 tables, then conduct_stage(2, ...)
BeginStage2 ==
    /\ pc = "prompt2"
    /\ \E k \in stage2_pool_keys(rank1[1].name) :
          /\ keys' = [keys EXCEPT !.s2_pool = k,
                                  !.s2_tax = stage2_tax_key(rank1[1].name)]
          /\ conduct_stage_select(2, STAGE2_QUESTIONS[k])
    /\ pc' = "ask2"
    /\ UNCHANGED <<demo, traits, used_ids, asked, n_answers, norms,
                   rank1, rank2, rank3, output, exit_code, fnVars>>

\* SUB_FIELDS.get(top_field, {}): the empty set is the empty sequence
sub_taxonomy_get(sub_fields, top_field) ==
    IF top_field \in DOMAIN sub_fields THEN sub_fields[top_field] ELSE <<>>

\* the single-candidate list stage 3 builds when it has no specialization set
CorePractitioner ==
    <<[name |-> "Core Practitioner", pct |-> [num |-> 10000, den |-> 1]]>>

\* a plausible slip: the stage-3 substitute pasted into the stage-2 branch
stage2_ranking_substitute(sub_taxonomy, rank1_in, norm2) ==
    IF sub_taxonomy # <<>>
    THEN ranked_nodes(score_nodes(sub_taxonomy, norm2))
    ELSE CorePractitioner

\* rank2: "if sub_taxonomy:" scores the sub-field set, else rank2 = rank1
stage2_ranking(sub_taxonomy, rank1_in, norm2) ==
    IF sub_taxonomy # <<>>
    THEN ranked_nodes(score_nodes(sub_taxonomy, norm2))
    ELSE rank1_in

\* norm2, then rank2 from the sub-field set, or rank1 when there is none
ScoreStage2 ==
    /\ pc = "ask2"
    /\ batch = <<>>
    /\ rank2' = stage2_ranking(
                    IF keys.s2_tax # "" THEN SUB_FIELDS[keys.s2_tax] ELSE <<>>,
                    rank1,
                    normalise_traits(traits, used_count,
                                     DEFAULT_MAX_WEIGHT))
    /\ norms' = Append(norms, used_count)
    /\ pc' = "prompt3"
    /\ UNCHANGED <<demo, traits, used_ids, batch, asked, n_answers, stages_run,
                   keys, rank1, rank3, output, exit_code, fnVars>>

\* the key of SPECIALIZATIONS.get(top_sub, SPECIALIZATIONS.get("_default_", {}))
stage3_tax_key(top_sub) ==
    IF top_sub \in DOMAIN SPECIALIZATIONS THEN top_sub
    ELSE IF "_default_" \in DOMAIN SPECIALIZATIONS THEN "_default_" ELSE ""

\* the key of the stage-3 pool: top_sub if it has one, else "_default_"
stage3_pool_key(top_sub) ==
    IF top_sub \in DOMAIN STAGE3_QUESTIONS THEN top_sub ELSE "_default_"

\* a plausible slip: stage 3 calls conduct_stage(2, ...) again
BeginStage3_as_stage2 ==
    /\ pc = "prompt3"
    /\ keys' = [keys EXCEPT !.s3_pool = stage3_pool_key(rank2[1].name),
                            !.s3_tax = stage3_tax_key(rank2[1].name)]
    /\ conduct_stage_select(2, STAGE3_QUESTIONS[stage3_pool_key(rank2[1].name)])
    /\ pc' = "ask3"
    /\ UNCHANGED <<demo, traits, used_ids, asked, n_answers, norms,
                   rank1, rank2, rank3, output, exit_code, fnVars>>

\* a plausible slip: stage 3 looks its tables up with top_field, not top_sub
BeginStage3_by_field ==
    /\ pc = "prompt3"
    /\ keys' = [keys EXCEPT !.s3_pool = stage3_pool_key(rank1[1].name),
                            !.s3_tax = stage3_tax_key(rank1[1].name)]
    /\ conduct_stage_select(3, STAGE3_QUESTIONS[stage3_pool_key(rank1[1].name)])
    /\ pc' = "ask3"
    /\ UNCHANGED <<demo, traits, used_ids, asked, n_answers, norms,
                   rank1, rank2, rank3, output, exit_code, fnVars>>

\* run(): the ENTER prompt, the stage-3 tables, then conduct_stage(3, ...)
BeginStage3 ==
    /\ pc = "prompt3"
    /\ keys' = [keys EXCEPT !.s3_pool = stage3_pool_key(rank2[1].name),
                            !.s3_tax = stage3_tax_key(rank2[1].name)]
    /\ conduct_stage_select(3, STAGE3_QUESTIONS[stage3_pool_key(rank2[1].name)])
    /\ pc' = "ask3"
    /\ UNCHANGED <<demo, traits, used_ids, asked, n_answers, norms,
                   rank1, rank2, rank3, output, exit_code, fnVars>>

\* SPECIALIZATIONS.get(top_sub, SPECIALIZATIONS.get("_default_", {}))
spec_taxonomy_get(specializations, top_sub) ==
    IF top_sub \in DOMAIN specializations THEN specializations[top_sub]
    ELSE IF "_default_" \in DOMAIN specializations
         THEN specializations["_default_"] ELSE <<>>

\* rank3: "if spec_taxonomy:" scores the set, else the one-element list
stage3_ranking(spec_taxonomy, norm3) ==
    IF spec_taxonomy # <<>>
    THEN ranked_nodes(score_nodes(spec_taxonomy, norm3))
    ELSE CorePractitioner

\* norm3, then rank3 from the specialization set, or the one-element list
ScoreStage3 ==
    /\ pc = "ask3"
    /\ batch = <<>>
    /\ rank3' = stage3_ranking(
                    IF keys.s3_tax # "" THEN SPECIALIZATIONS[keys.s3_tax] ELSE <<>>,
                    normalise_traits(traits, used_count,
                                     DEFAULT_MAX_WEIGHT))
    /\ norms' = Append(norms, used_count)
    /\ pc' = "finish"
    /\ UNCHANGED <<demo, traits, used_ids, batch, asked, n_answers, stages_run,
                   keys, rank1, rank2, output, exit_code, fnVars>>

\* run() from the AI prompt to "return output": the result record
Finish ==
    /\ pc = "finish"
    /\ output' =
          [written |-> TRUE,
           questions_asked |-> Cardinality(used_ids),
           stage_1 |-> [field |-> rank1[1].name, confidence |-> rank1[1].pct,
                        all_fields |-> rank1],
           stage_2 |-> [subfield |-> rank2[1].name, confidence |-> rank2[1].pct,
                        all_subfields |-> rank2],
           stage_3 |-> [specialization |-> rank3[1].name,
                        confidence |-> rank3[1].pct, all_specs |-> rank3],
           trait_profile |-> normalise_traits(traits, Cardinality(used_ids),
                                              DEFAULT_MAX_WEIGHT)]
    /\ pc' = "done"
    /\ UNCHANGED <<demo, traits, used_ids, batch, asked, n_answers, stages_run,
                   keys, norms, rank1, rank2, rank3, exit_code, fnVars>>

\* a plausible slip: the abort path saves what it has before leaving
Interrupt_saving_partial ==
    /\ ~demo
    /\ \/ pc \in {"prompt1", "prompt2", "prompt3", "finish"}
       \/ pc \in {"ask1", "ask2", "ask3"} /\ batch # <<>>
    /\ pc' = "exited"
    /\ exit_code' = <<0>>
    /\ output' = [written |-> TRUE, questions_asked |-> Cardinality(used_ids)]
    /\ UNCHANGED <<demo, traits, used_ids, batch, asked, n_answers, stages_run,
                   keys, norms, rank1, rank2, rank3, fnVars>>

\* EOFError or KeyboardInterrupt at a blocking read: sys.exit(0)
Interrupt ==
    /\ ~demo
    /\ \/ pc \in {"prompt1", "prompt2", "prompt3", "finish"}
       \/ pc \in {"ask1", "ask2", "ask3"} /\ batch # <<>>
    /\ pc' = "exited"
    /\ exit_code' = <<0>>
    /\ UNCHANGED <<demo, traits, used_ids, batch, asked, n_answers, stages_run,
                   keys, norms, rank1, rank2, rank3, output, fnVars>>

(***************************************************************************)
(* scoring.py: the section-based scorer                                    *)
(***************************************************************************)
OPTION_SCORE_POS == [A |-> 2, B |-> 1, C |-> 0, D |-> -1, E |-> -2]

OPTION_SCORE_NEG == [A |-> -2, B |-> -1, C |-> 0, D |-> 1, E |-> 2]

PERSONALITY_SECTIONS ==
    {"OPENNESS", "CONSCIENTIOUSNESS", "EXTRAVERSION", "AGREEABLENESS",
     "NEUROTICISM", "REALISTIC", "INVESTIGATIVE", "ARTISTIC"}

APTITUDE_SECTION == "APTITUDE"

\* SECTION_META[section]["max"]: 40 for every section
SECTION_MAX == [s \in PERSONALITY_SECTIONS \cup {APTITUDE_SECTION} |-> 40]

\* SECTION_META[section]["n"]: 40 aptitude items, 20 items per personality section
SECTION_N ==
    [s \in PERSONALITY_SECTIONS \cup {APTITUDE_SECTION} |->
        IF s = APTITUDE_SECTION THEN 40 ELSE 20]

\* q.get("polarity", "positive") and q.get("correct", "")
question_polarity(q) == IF "polarity" \in DOMAIN q THEN q.polarity ELSE "positive"

question_correct(q) == IF "correct" \in DOMAIN q THEN q.correct ELSE ""

\* a scorer that counts a question without an answer as a disagreement
raw_score_step_penalising_unanswered(q, answers) ==
    IF q.id \notin DOMAIN answers
    THEN (IF q.section \in PERSONALITY_SECTIONS THEN -1 ELSE 0)
    ELSE IF q.section = APTITUDE_SECTION
    THEN (IF upper(answers[q.id]) = question_correct(q) THEN 1 ELSE 0)
    ELSE IF q.section \in PERSONALITY_SECTIONS
    THEN LET mapping == IF question_polarity(q) = "positive"
                        THEN OPTION_SCORE_POS ELSE OPTION_SCORE_NEG
         IN  IF upper(answers[q.id]) \in DOMAIN mapping
             THEN mapping[upper(answers[q.id])] ELSE 0
    ELSE 0

\* what one question adds to the score of its section
raw_score_step(q, answers) ==
    IF q.id \notin DOMAIN answers THEN 0
    ELSE IF q.section = APTITUDE_SECTION
    THEN (IF upper(answers[q.id]) = question_correct(q) THEN 1 ELSE 0)
    ELSE IF q.section \in PERSONALITY_SECTIONS
    THEN LET mapping == IF question_polarity(q) = "positive"
                        THEN OPTION_SCORE_POS ELSE OPTION_SCORE_NEG
         IN  IF upper(answers[q.id]) \in DOMAIN mapping
             THEN mapping[upper(answers[q.id])] ELSE 0
    ELSE 0

compute_raw_scores(questions, answers) ==
    [s \in DOMAIN SECTION_MAX |->
        SumSeq([i \in 1..Len(questions) |->
                   IF questions[i].section = s
                   THEN raw_score_step(questions[i], answers) ELSE 0])]

normalise(raw) ==
    [s \in DOMAIN raw |->
        IF s = APTITUDE_SECTION
        THEN [num |-> Max2(0, Min2(SECTION_MAX[s], raw[s])), den |-> SECTION_MAX[s]]
        ELSE [num |-> Max2(0, Min2(2 * SECTION_MAX[s], raw[s] + SECTION_MAX[s])),
              den |-> 2 * SECTION_MAX[s]]]

\* norm.get(section, 0.5)
norm_get(norm, section) ==
    IF section \in DOMAIN norm THEN norm[section] ELSE [num |-> 1, den |-> 2]

build_trait_vector(norm) ==
    [apt  |-> norm_get(norm, "APTITUDE"),
     O    |-> norm_get(norm, "OPENNESS"),
     C    |-> norm_get(norm, "CONSCIENTIOUSNESS"),
     E    |-> norm_get(norm, "EXTRAVERSION"),
     A    |-> norm_get(norm, "AGREEABLENESS"),
     stab |-> [num |-> norm_get(norm, "NEUROTICISM").den
                        - norm_get(norm, "NEUROTICISM").num,
               den |-> norm_get(norm, "NEUROTICISM").den],
     R    |-> norm_get(norm, "REALISTIC"),
     I    |-> norm_get(norm, "INVESTIGATIVE"),
     Art  |-> norm_get(norm, "ARTISTIC")]

\* the first four clusters of CAREER_CLUSTERS, with the weights of the source
CAREER_CLUSTERS ==
    << Node("STEM / Technology",
            ("apt" :> 35 @@ "I" :> 30 @@ "C" :> 15 @@ "O" :> 10 @@ "E" :> 2
             @@ "A" :> 2 @@ "stab" :> 3 @@ "R" :> 3)),
       Node("Engineering / Trades",
            ("apt" :> 20 @@ "R" :> 35 @@ "I" :> 20 @@ "C" :> 15 @@ "O" :> 5
             @@ "E" :> 2 @@ "A" :> 1 @@ "stab" :> 2)),
       Node("Science / Research",
            ("apt" :> 25 @@ "I" :> 35 @@ "O" :> 20 @@ "C" :> 12 @@ "E" :> 2
             @@ "A" :> 3 @@ "stab" :> 2 @@ "R" :> 1)),
       Node("Creative Arts & Design",
            ("Art" :> 40 @@ "O" :> 25 @@ "E" :> 10 @@ "C" :> 10 @@ "apt" :> 5
             @@ "A" :> 5 @@ "stab" :> 3 @@ "I" :> 2)) >>

SCORING_SHARPNESS == 12

SCORING_TEMPERATURE == 5

\* scoring._sigmoid: no handler, math.exp's OverflowError propagates
scoring_sigmoid_raises(x) == exp_overflows(sigmoid_arg(x, SCORING_SHARPNESS))

scoring_sigmoid(x) == logistic(sigmoid_arg(x, SCORING_SHARPNESS))

\* scoring._softmax: no handler either
scoring_softmax_raises(values) ==
    \E i \in 1..Len(values) : exp_overflows(values[i].val * SCORING_TEMPERATURE)

scoring_softmax(values) ==
    LET exp_top == softmax_top(values, SCORING_TEMPERATURE)
        exps == [i \in 1..Len(values) |->
                    softmax_exp(values[i].val, SCORING_TEMPERATURE, exp_top)]
        total == softmax_total(exps)
    IN  [i \in 1..Len(values) |->
            [name |-> values[i].name,
             pct  |-> [num |-> RoundMulDiv(exps[i].val, 10000, total), den |-> 1]]]

compute_cluster_scores(trait_vec) ==
    scoring_softmax([i \in 1..Len(CAREER_CLUSTERS) |->
        [name |-> CAREER_CLUSTERS[i].name,
         val  |-> scoring_sigmoid(node_dot(CAREER_CLUSTERS[i].trait_weights,
                                           trait_vec))]])

\* ranked = sorted(probs.items(), key=lambda x: x[1], reverse=True)
score_assessment_ranked(probs) == SortDesc(<<>>, probs)

score_assessment(questions, answers) ==
    LET raw == compute_raw_scores(questions, answers)
        trait_vec == build_trait_vector(normalise(raw))
        probs == compute_cluster_scores(trait_vec)
        ranked == score_assessment_ranked(probs)
    IN  [raw_scores |-> raw,
         normalised_traits |-> trait_vec,
         career_probabilities |-> ranked,
         top_career_cluster |-> IF ranked # <<>> THEN ranked[1].name ELSE "None"]

(***************************************************************************)
(* One call of a library function on drawn arguments.  A trait vector a    *)
(* caller holds is an object: the heap is the sequence of the dicts        *)
(* allocated so far and a reference is an index into it.                   *)
(***************************************************************************)
\* a plausible slip: updated = traits, the same object under a second name
dict_alias(heap, ref) == [heap |-> heap, ref |-> ref]

\* updated = dict(traits): a new dict with the same items
dict_copy(heap, ref) == [heap |-> Append(heap, heap[ref]), ref |-> Len(heap) + 1]

\* apply_answer on the heap: copy, update the copy in place, return it
apply_answer_call(heap, ref, question, answer) ==
    LET c == dict_copy(heap, ref)
    IN  [heap |-> [c.heap EXCEPT ![c.ref] = apply_answer(c.heap[c.ref], question, answer)],
         ref  |-> c.ref]

\* normalise_traits on the heap: the dict comprehension builds a new dict
normalise_traits_call(heap, ref, n_questions, max_weight) ==
    [heap |-> Append(heap, normalise_traits(heap[ref], n_questions, max_weight)),
     ref  |-> Len(heap) + 1]

\* bounds of the drawn arguments
MaxNQuestions == 2

MaxCandidates == 6

MaxSelectN == 2

AnswerLabels == OPTION_KEYS \cup {"a", "e", "Z", "z", ""}

ApplyTraits == {empty_traits, [empty_traits EXCEPT !["I"] = 30, !["R"] = -15]}

ApplyQuestions ==
    Range(STAGE1_QUESTIONS) \cup Range(STAGE2_QUESTIONS["Technology"])
    \cup {[id |-> "no_traits"]}

ApplyInputs ==
    {[op |-> "apply_answer", heap |-> <<t>>, ref |-> 1, question |-> q, answer |-> a] :
        t \in ApplyTraits, q \in ApplyQuestions, a \in AnswerLabels}

\* questions for a run of apply_answer calls: weights up to 2.0 in absolute
\* value, and one question with a key that is no trait of the accumulator
RunQuestions ==
    {Question("r_01", ("I" :> 20)),
     Question("r_02", ("I" :> 10 @@ "R" :> -5)),
     Question("r_03", ("R" :> -20)),
     Question("r_04", ("I" :> 10 @@ "zz" :> 20))}

RunAnswers == {"A", "C", "E"}

RunPairs == {[question |-> q, answer |-> a] : q \in RunQuestions, a \in RunAnswers}

RunInputs ==
    {[op |-> "apply_answers", traits |-> t, pairs |-> ps] :
        t \in ApplyTraits,
        ps \in UNION {[1..k -> RunPairs] : k \in 1..MaxNQuestions}}

\* traits = apply_answer(traits, q, ans) for each pair in turn: the loop of
\* conduct_stage
RECURSIVE apply_answers(_, _)
apply_answers(traits_in, pairs) ==
    IF pairs = <<>> THEN traits_in
    ELSE apply_answers(apply_answer(traits_in, Head(pairs).question, Head(pairs).answer),
                       Tail(pairs))

(***************************************************************************)
(* Python floats: the accumulator of one trait as an IEEE-754 double.  A   *)
(* non-negative double is its 53-bit significand m (a sequence of bits,    *)
(* least significant first, the last one 1) and the exponent e of its      *)
(* lowest bit; 0.0 has the empty significand.  Only sums of non-negative   *)
(* values are modelled.                                                    *)
(***************************************************************************)
HexDigitBits(d) == <<d % 2, (d \div 2) % 2, (d \div 4) % 2, (d \div 8) % 2>>

\* the bits of a number written in hexadecimal digits, highest digit first
RECURSIVE HexBits(_)
HexBits(h) == IF h = <<>> THEN <<>> ELSE HexBits(Tail(h)) \o HexDigitBits(Head(h))

\* the bits without the zeros above the highest 1
StripHigh(bits) ==
    LET ones == {i \in 1..Len(bits) : bits[i] = 1}
    IN  IF ones = {} THEN <<>>
        ELSE SubSeq(bits, 1, CHOOSE i \in ones : \A j \in ones : j <= i)

Zeros(n) == [i \in 1..n |-> 0]

FloatZero == [m |-> <<>>, e |-> 0]

\* float.fromhex: the significand in hexadecimal and the exponent of its lowest bit
Float(hex, e) == [m |-> StripHigh(HexBits(hex)), e |-> e]

\* 0.1 = 0x1.999999999999ap-4, 0.2 = 0x1.999999999999ap-3,
\* 0.3 = 0x1.3333333333333p-2, 0.5 = 0x1p-1, and 0.6 = 0x1.3333333333333p-1
FloatWeights ==
    [w01 |-> Float(<<1, 9, 9, 9, 9, 9, 9, 9, 9, 9, 9, 9, 9, 10>>, -56),
     w02 |-> Float(<<1, 9, 9, 9, 9, 9, 9, 9, 9, 9, 9, 9, 9, 10>>, -55),
     w03 |-> Float(<<1, 3, 3, 3, 3, 3, 3, 3, 3, 3, 3, 3, 3, 3>>, -54),
     w05 |-> Float(<<1, 0, 0, 0, 0, 0, 0, 0, 0, 0, 0, 0, 0, 0>>, -53)]

FloatStarts ==
    {FloatZero, Float(<<1, 3, 3, 3, 3, 3, 3, 3, 3, 3, 3, 3, 3, 3>>, -53)}

\* binary addition with carry, lowest bit first
RECURSIVE AddBits(_, _, _)
AddBits(a, b, carry) ==
    IF a = <<>> /\ b = <<>> THEN (IF carry = 1 THEN <<1>> ELSE <<>>)
    ELSE LET x == IF a = <<>> THEN 0 ELSE Head(a)
             y == IF b = <<>> THEN 0 ELSE Head(b)
         IN  <<(x + y + carry) % 2>>
             \o AddBits(IF a = <<>> THEN a ELSE Tail(a),
                        IF b = <<>> THEN b ELSE Tail(b),
                        (x + y + carry) \div 2)

\* round to nearest, ties to even, to 53 bits: bits has its highest bit set
RoundToDouble(bits, e) ==
    LET drop == Len(bits) - 53
    IN  IF drop <= 0 THEN [m |-> Zeros(-drop) \o bits, e |-> e + drop]
        ELSE LET kept == SubSeq(bits, drop + 1, Len(bits))
                 up == /\ bits[drop] = 1
                       /\ \/ kept[1] = 1
                          \/ \E i \in 1..(drop - 1) : bits[i] = 1
                 r == IF up THEN AddBits(kept, <<1>>, 0) ELSE kept
             IN  IF Len(r) > 53 THEN [m |-> SubSeq(r, 2, Len(r)), e |-> e + drop + 1]
                 ELSE [m |-> r, e |-> e + drop]

\* x + y for two non-negative doubles
float_add(x, y) ==
    IF x.m = <<>> THEN y
    ELSE IF y.m = <<>> THEN x
    ELSE LET low == Min2(x.e, y.e)
         IN  RoundToDouble(AddBits(Zeros(x.e - low) \o x.m,
                                   Zeros(y.e - low) \o y.m, 0), low)

\* delta * weight for delta 0, 1, 2: exact in binary
float_times(delta, w) ==
    IF delta = 0 \/ w.m = <<>> THEN FloatZero ELSE [m |-> w.m, e |-> w.e + (delta - 1)]

\* updated[trait] += delta * weight
float_apply_answer(acc, w, answer) ==
    float_add(acc, float_times(likert_delta(answer), w))

RECURSIVE float_apply_answers(_, _)
float_apply_answers(acc, pairs) ==
    IF pairs = <<>> THEN acc
    ELSE float_apply_answers(
             float_apply_answer(acc, FloatWeights[Head(pairs).w], Head(pairs).answer),
             Tail(pairs))

FloatPairs == {[w |-> w, answer |-> a] : w \in DOMAIN FloatWeights, a \in {"A", "B"}}

FloatInputs ==
    {[op |-> "float_answers", start |-> st, pairs |-> ps] :
        st \in FloatStarts,
        ps \in UNION {[1..k -> FloatPairs] : k \in 1..MaxNQuestions}}

RawValues == {-2000000, -41, -40, -1, 0, 1, 40, 41, 2000000}

NormInputs ==
    {[op |-> "normalise_traits",
      heap |-> <<[empty_traits EXCEPT !["apt"] = a, !["I"] = b]>>, ref |-> 1,
      n_questions |-> n, max_weight |-> mw] :
        a \in RawValues, b \in RawValues, n \in 0..MaxNQuestions,
        mw \in {-20, 0, 5, 20}}

SectionValues == {-1000, -41, -1, 0, 20, 40, 41, 1000}

ScoringNormInputs ==
    {[op |-> "normalise",
      raw |-> [[s \in DOMAIN SECTION_MAX |-> 0]
                  EXCEPT !["APTITUDE"] = a, !["NEUROTICISM"] = b]] :
        a \in SectionValues, b \in SectionValues}

\* activations 0.0, 0.5 and 1.0, and a score whose exponential overflows
ScoreValues == {0, 500, 1000, 200000}

\* one answer applied to an accumulator and the result normalised, for two
\* weights of trait "I" and two answers
PairWeights == {-5, 0, 5, 10, 20}

PairAnswers == {"A", "B", "C", "E"}

PairTraits ==
    {empty_traits, [empty_traits EXCEPT !["I"] = 30], [empty_traits EXCEPT !["I"] = -75]}

PairInputs ==
    {[op |-> "apply_normalise", traits |-> t, w_lo |-> w1, w_hi |-> w2,
      ans_lo |-> a1, ans_hi |-> a2, n_questions |-> n] :
        t \in PairTraits, w1 \in PairWeights, w2 \in PairWeights,
        a1 \in PairAnswers, a2 \in PairAnswers, n \in 0..MaxNQuestions}

\* normalise_traits(apply_answer(traits, q, answer), n_questions) for a
\* question q that declares the weight w for "I" and for no other trait
apply_then_normalise(traits_in, w, answer, n_questions) ==
    normalise_traits(apply_answer(traits_in, [id |-> "q", traits |-> [I |-> w]], answer),
                     n_questions, DEFAULT_MAX_WEIGHT)

\* dot products from -100.0 to 100.0, in ten-thousandths
SigmoidValues == {-1000000, -590000, 0, 4000, 5000, 6000, 10000, 1000000}

SigmoidInputs ==
    {[op |-> o, x |-> v] : o \in {"_sigmoid", "scoring_sigmoid"}, v \in SigmoidValues}

CandidateNames == <<"c1", "c2", "c3", "c4", "c5", "c6", "c7", "c8">>

ScoreLists ==
    UNION {{[i \in 1..k |-> [name |-> CandidateNames[i], val |-> f[i]]] :
               f \in [1..k -> ScoreValues]} : k \in 1..MaxCandidates}

SoftmaxInputs ==
    {[op |-> o, scores |-> sc] : o \in {"_softmax", "scoring_softmax"}, sc \in ScoreLists}

SelectPool == STAGE1_QUESTIONS \o STAGE2_QUESTIONS["Technology"]

SelectNorms ==
    {<<>>,
     normalise_traits(empty_traits, 1, DEFAULT_MAX_WEIGHT),
     normalise_traits([empty_traits EXCEPT !["I"] = 30, !["C"] = -20], 1,
                      DEFAULT_MAX_WEIGHT)}

SelectInputs ==
    {[op |-> "select_questions", pool |-> SelectPool, n |-> n, used |-> u,
      norm_traits |-> nt] :
        n \in 0..MaxSelectN, u \in SUBSET {q.id : q \in Range(SelectPool)},
        nt \in SelectNorms}

\* questions.py (imported by main.py, main.py:22): an excerpt of the bank
QUESTIONS ==
    << [id |-> 1, section |-> "APTITUDE", correct |-> "B"],
       [id |-> 2, section |-> "INVESTIGATIVE", polarity |-> "positive"],
       [id |-> 3, section |-> "NEUROTICISM", polarity |-> "negative"],
       [id |-> 4, section |-> "ARTISTIC"] >>

AssessmentInputs ==
    {[op |-> "score_assessment", answers |-> a] :
        a \in UNION {[d -> {"A", "B", "E"}] : d \in SUBSET {1, 2, 3, 4}}}

\* a bank with the item counts of SECTION_META for the aptitude section and one
\* personality section: ids 1..40 are aptitude items (the last one without a
\* "correct" key), ids 41..60 NEUROTICISM items of either polarity and without
\* a "polarity" key, ids 61..62 OPENNESS items, id 63 an item of no known section
CorrectLabels == <<"A", "B", "C", "D">>

SECTION_BANK ==
    [i \in 1..63 |->
        IF i < SECTION_N[APTITUDE_SECTION]
        THEN [id |-> i, section |-> APTITUDE_SECTION,
              correct |-> CorrectLabels[(i % 4) + 1]]
        ELSE IF i = SECTION_N[APTITUDE_SECTION]
        THEN [id |-> i, section |-> APTITUDE_SECTION]
        ELSE IF i <= SECTION_N[APTITUDE_SECTION] + SECTION_N["NEUROTICISM"]
        THEN (CASE i % 3 = 0 -> [id |-> i, section |-> "NEUROTICISM"]
                [] i % 3 = 1 -> [id |-> i, section |-> "NEUROTICISM",
                                 polarity |-> "positive"]
                [] OTHER     -> [id |-> i, section |-> "NEUROTICISM",
                                 polarity |-> "negative"])
        ELSE IF i <= 62
        THEN [id |-> i, section |-> "OPENNESS", polarity |-> "negative"]
        ELSE [id |-> i, section |-> "OTHER"]]

\* how a respondent fills in a section: every item with the label that scores
\* highest, every item with the label that scores lowest, or one label throughout
AnswerPatterns == {"highest", "lowest", "A", "c", "Z"}

pattern_answer(q, pattern) ==
    CASE pattern = "highest" ->
            (IF q.section = APTITUDE_SECTION THEN question_correct(q)
             ELSE IF question_polarity(q) = "positive" THEN "A" ELSE "E")
      [] pattern = "lowest" ->
            (IF q.section = APTITUDE_SECTION THEN "E"
             ELSE IF question_polarity(q) = "positive" THEN "E" ELSE "A")
      [] OTHER -> pattern

\* the first ka aptitude items and the first kn NEUROTICISM items answered, the
\* remaining items answered or not
bank_answers(ka, pa, kn, pn, rest) ==
    LET answered == (1..ka)
                    \cup (SECTION_N[APTITUDE_SECTION] + 1
                            .. SECTION_N[APTITUDE_SECTION] + kn)
                    \cup (IF rest THEN {61, 62, 63} ELSE {})
    IN  [id \in answered |->
            IF id <= SECTION_N[APTITUDE_SECTION]
            THEN pattern_answer(SECTION_BANK[id], pa)
            ELSE pattern_answer(SECTION_BANK[id], pn)]

RawScoreInputs ==
    {[op |-> "raw_scores", answers |-> bank_answers(ka, pa, kn, pn, rest)] :
        ka \in {0, 1, 39, 40}, pa \in AnswerPatterns,
        kn \in {0, 1, 19, 20}, pn \in AnswerPatterns, rest \in BOOLEAN}

\* sub-field tables for the scoring chain: the program's own, one in which only
\* "Technology" has a sub-field set, one in which the set of "Science" is empty
ChainSubFields ==
    {SUB_FIELDS,
     [k \in {"Technology"} |-> SUB_FIELDS[k]],
     [k \in DOMAIN SUB_FIELDS |-> IF k = "Science" THEN <<>> ELSE SUB_FIELDS[k]]}

ChainTraits ==
    {empty_traits,
     [empty_traits EXCEPT !["I"] = 30, !["R"] = -15],
     [empty_traits EXCEPT !["Art"] = 40, !["E"] = 20]}

ChainInputs ==
    {[op |-> "stage_chain", sub_fields |-> t, raw |-> r, n_questions |-> n] :
        t \in ChainSubFields, r \in ChainTraits, n \in 1..MaxNQuestions}

\* the scoring steps of run() for one normalised vector: rank1, top_field,
\* sub_taxonomy, rank2, top_sub, spec_taxonomy, rank3
stage_chain(sub_fields, specializations, norm) ==
    LET r1 == ranked_nodes(score_nodes(FIELDS, norm))
        r2 == stage2_ranking(sub_taxonomy_get(sub_fields, r1[1].name), r1, norm)
        r3 == stage3_ranking(spec_taxonomy_get(specializations, r2[1].name), norm)
    IN  [rank1 |-> r1, rank2 |-> r2, rank3 |-> r3]

\* candidate sets for score_nodes: every candidate has one of two weight
\* vectors, the first being that of "Frontend Engineering" and "Game Development"
NodeWeights ==
    {("Art" :> 25 @@ "apt" :> 25 @@ "I" :> 25 @@ "O" :> 15 @@ "C" :> 10),
     ("R" :> 35 @@ "I" :> 25 @@ "C" :> 25 @@ "O" :> 15)}

NodeLists ==
    UNION {{[i \in 1..k |-> Node(CandidateNames[i], f[i])] :
               f \in [1..k -> NodeWeights]} : k \in 1..MaxCandidates}

ScoreNodesInputs ==
    {[op |-> "score_nodes", nodes |-> nl, raw |-> r, n_questions |-> n] :
        nl \in NodeLists, r \in ChainTraits, n \in 1..MaxNQuestions}

(***************************************************************************)
(* ai_reasoning.py (both variants): the narrative service.  A text is a    *)
(* sequence of tokens: "{", "}", "[", "]", a key of an object (or a string *)
(* element of an array), a scalar, or "prose" for anything that is no JSON.*)
(***************************************************************************)
DEFAULT_MODEL == "kimi-k2"

FALLBACK_MODEL == "llama3"

KeyTokens ==
    {"narrative", "why_this_path", "strengths", "growth_areas", "key_insight",
     "roadmap", "source", "raw_llm_response", "error"}

\* JSON scalars: a string that contains the word narrative, another string,
\* the numbers 5 and 0, null
ScalarTokens == {"str_narrative", "str_other", "5", "0", "null"}

JSONDecodeError == [type |-> "JSONDecodeError"]

Dict(ks) == [type |-> "dict", keys |-> ks]

\* json.loads: one complete JSON value or JSONDecodeError
json_loads(text) ==
    IF Len(text) >= 2 /\ text[1] = "{" /\ text[Len(text)] = "}"
       /\ \A i \in 2..(Len(text) - 1) : text[i] \in KeyTokens
    THEN Dict({text[i] : i \in 2..(Len(text) - 1)})
    ELSE IF Len(text) >= 2 /\ text[1] = "[" /\ text[Len(text)] = "]"
            /\ \A i \in 2..(Len(text) - 1) : text[i] \in KeyTokens
    THEN [type |-> "list", keys |-> {text[i] : i \in 2..(Len(text) - 1)}]
    ELSE IF Len(text) = 1 /\ text[1] \in ScalarTokens
    THEN [type |-> text[1], keys |-> {}]
    ELSE JSONDecodeError

\* json.loads(raw[raw.index("{") : raw.rindex("}") + 1]); "ValueError" when
\* either brace is missing
extract_braces(text) ==
    LET opens  == {i \in 1..Len(text) : text[i] = "{"}
        closes == {i \in 1..Len(text) : text[i] = "}"}
    IN  IF opens = {} \/ closes = {} THEN [type |-> "ValueError"]
        ELSE LET first == CHOOSE i \in opens : \A j \in opens : i <= j
                 last  == CHOOSE i \in closes : \A j \in closes : j <= i
             IN  json_loads(SubSeq(text, first, last))

\* bool(v) of a parsed value
truthy(v) ==
    CASE v.type \in {"dict", "list"} -> v.keys # {}
      [] v.type \in {"0", "null"} -> FALSE
      [] OTHER -> TRUE

\* "narrative" in v raises TypeError for a number
contains_raises(v) == v.type \in {"5", "0", "null"}

contains_narrative(v) ==
    CASE v.type \in {"dict", "list"} -> "narrative" \in v.keys
      [] v.type = "str_narrative" -> TRUE
      [] OTHER -> FALSE

\* v["source"] = ... raises TypeError for anything but a dict
setitem_raises(v) == v.type # "dict"

\* what curl and the service can do with one request
FailureKinds ==
    {"timeout", "no_curl", "decode_error", "nonzero", "empty", "not_json",
     "json_array", "no_response", "null_response"}

FullObject == <<"{", "narrative", "strengths", "growth_areas", "key_insight", "}">>

\* texts of the "response" field
Responses ==
    {<<>>, FullObject, <<"prose">> \o FullObject \o <<"prose">>,
     <<"{", "narrative", "}">>, <<"{", "error", "}">>, <<"{", "}">>,
     <<"prose">>, <<"{", "prose", "}">>, <<"}", "prose", "{">>,
     <<"[", "narrative", "]">>, <<"[", "]">>,
     <<"str_narrative">>, <<"str_other">>, <<"5">>, <<"0">>, <<"null">>}

Replies ==
    {[kind |-> k, text |-> <<>>] : k \in FailureKinds}
    \cup {[kind |-> "response", text |-> t] : t \in Responses}

\* CJL-PRO _call_ollama: every failure, and every exception, gives ""
pro_call_ollama(reply) ==
    [raised |-> FALSE,
     text |-> IF reply.kind = "response" THEN reply.text ELSE <<>>]

\* CJL-PRO _extract_json
_extract_json(raw) ==
    LET whole == json_loads(raw)
    IN  IF whole # JSONDecodeError THEN whole
        ELSE LET part == extract_braces(raw)
             IN  IF part.type \in {"ValueError", "JSONDecodeError"}
                 THEN Dict({}) ELSE part

\* CJL-PRO _fallback
_fallback ==
    Dict({"narrative", "why_this_path", "strengths", "growth_areas",
          "key_insight", "source"})

\* CJL-PRO generate_reasoning from "result = _extract_json(raw)" on
pro_result(raw) ==
    LET result == _extract_json(raw)
    IN  IF ~truthy(result)
        THEN [raised |-> FALSE, substitute |-> TRUE, value |-> _fallback]
        ELSE IF contains_raises(result)
        THEN [raised |-> TRUE, substitute |-> FALSE, value |-> result]
        ELSE IF ~contains_narrative(result)
        THEN [raised |-> FALSE, substitute |-> TRUE, value |-> _fallback]
        ELSE IF setitem_raises(result)
        THEN [raised |-> TRUE, substitute |-> FALSE, value |-> result]
        ELSE [raised |-> FALSE, substitute |-> FALSE,
              value |-> Dict(result.keys \cup {"source"})]

\* CJL _fallback_reasoning: the substitute as JSON text
_fallback_reasoning ==
    <<"{", "narrative", "strengths", "growth_areas", "roadmap", "source", "}">>

\* CJL _call_ollama: only TimeoutExpired, JSONDecodeError and
\* FileNotFoundError are caught
cjl_call_ollama(reply) ==
    CASE reply.kind \in {"timeout", "no_curl", "nonzero", "empty", "not_json"} ->
            [raised |-> FALSE, substitute |-> TRUE, text |-> _fallback_reasoning]
      [] reply.kind \in {"decode_error", "json_array", "null_response"} ->
            [raised |-> TRUE, substitute |-> FALSE, text |-> <<>>]
      [] reply.kind = "no_response" ->
            [raised |-> FALSE, substitute |-> FALSE, text |-> <<>>]
      [] OTHER ->
            [raised |-> FALSE, substitute |-> FALSE, text |-> reply.text]

\* CJL generate_reasoning from "parsed = json.loads(raw)" on
cjl_result(raw) ==
    LET parsed == json_loads(raw)
    IN  IF parsed # JSONDecodeError
        THEN (IF setitem_raises(parsed)
              THEN [raised |-> TRUE, substitute |-> FALSE, value |-> parsed]
              ELSE [raised |-> FALSE, substitute |-> FALSE,
                    value |-> Dict(parsed.keys \cup {"source"})])
        ELSE LET part == extract_braces(raw)
             IN  IF part.type \in {"ValueError", "JSONDecodeError"}
                 THEN [raised |-> FALSE, substitute |-> TRUE,
                       value |-> Dict(json_loads(_fallback_reasoning).keys
                                      \cup {"raw_llm_response"})]
                 ELSE [raised |-> FALSE, substitute |-> FALSE,
                       value |-> Dict(part.keys \cup {"source"})]

ReasoningInputs == {[op |-> "generate_reasoning", variant |-> v] : v \in {"CJL-PRO", "CJL"}}

\* the replies of the service, to the first call and to the second, on which
\* generate_reasoning raises: on the text of the first reply, or of the second
\* when the first gave none
RaisingReplies ==
    {rs \in Replies \X Replies :
        IF pro_call_ollama(rs[1]).text # <<>>
        THEN pro_result(pro_call_ollama(rs[1]).text).raised
        ELSE pro_result(pro_call_ollama(rs[2]).text).raised}

\* run() without --no-ai: generate_reasoning raises and run() has no handler,
\* so the interpreter ends with a traceback and exit code 1 before the save
ReasoningRaises ==
    /\ pc = "finish"
    /\ RaisingReplies # {}
    /\ pc' = "crashed"
    /\ exit_code' = <<1>>
    /\ UNCHANGED <<demo, traits, used_ids, batch, asked, n_answers, stages_run,
                   keys, norms, rank1, rank2, rank3, output, fnVars>>

SessionIdle ==
    /\ pc = "idle"
    /\ demo = FALSE
    /\ traits = empty_traits
    /\ used_ids = {}
    /\ batch = <<>>
    /\ asked = [q \in QuestionIds |-> 0]
    /\ n_answers = 0
    /\ stages_run = <<>>
    /\ keys = NoKeys
    /\ norms = <<>>
    /\ rank1 = <<>>
    /\ rank2 = <<>>
    /\ rank3 = <<>>
    /\ output = NoOutput
    /\ exit_code = <<>>

FnInit ==
    /\ SessionIdle
    /\ \/ fin \in ApplyInputs
       \/ fin \in NormInputs
       \/ fin \in ScoringNormInputs
       \/ fin \in SoftmaxInputs
       \/ fin \in SelectInputs
       \/ fin \in AssessmentInputs
       \/ fin \in ChainInputs
       \/ fin \in SigmoidInputs
       \/ fin \in PairInputs
       \/ fin \in ScoreNodesInputs
       \/ fin \in ReasoningInputs
       \/ fin \in RunInputs
       \/ fin \in FloatInputs
       \/ fin \in RawScoreInputs
    /\ fout = [done |-> FALSE]

CallApplyAnswer ==
    /\ fin.op = "apply_answer" /\ ~fout.done
    /\ LET r == apply_answer_call(fin.heap, fin.ref, fin.question, fin.answer)
       IN  fout' = [done |-> TRUE, heap |-> r.heap, ref |-> r.ref]
    /\ UNCHANGED <<fin, sessionVars>>

\* the pairs applied in the order given, and in every other order
CallApplyAnswers ==
    /\ fin.op = "apply_answers" /\ ~fout.done
    /\ fout' = [done |-> TRUE,
                traits |-> apply_answers(fin.traits, fin.pairs),
                reordered |-> {apply_answers(fin.traits, ps) :
                                  ps \in Arrangements(fin.pairs, Len(fin.pairs))}]
    /\ UNCHANGED <<fin, sessionVars>>

\* the same run on the accumulator of one trait held as a double
CallFloatAnswers ==
    /\ fin.op = "float_answers" /\ ~fout.done
    /\ fout' = [done |-> TRUE,
                total |-> float_apply_answers(fin.start, fin.pairs),
                reordered |-> {float_apply_answers(fin.start, ps) :
                                  ps \in Arrangements(fin.pairs, Len(fin.pairs))}]
    /\ UNCHANGED <<fin, sessionVars>>

CallNormaliseTraits ==
    /\ fin.op = "normalise_traits" /\ ~fout.done
    /\ LET r == normalise_traits_call(fin.heap, fin.ref, fin.n_questions,
                                      fin.max_weight)
       IN  fout' = [done |-> TRUE, heap |-> r.heap, ref |-> r.ref]
    /\ UNCHANGED <<fin, sessionVars>>

CallNormalise ==
    /\ fin.op = "normalise" /\ ~fout.done
    /\ fout' = [done |-> TRUE, norm |-> normalise(fin.raw)]
    /\ UNCHANGED <<fin, sessionVars>>

CallApplyThenNormalise ==
    /\ fin.op = "apply_normalise" /\ ~fout.done
    /\ fout' = [done |-> TRUE,
                lo |-> apply_then_normalise(fin.traits, fin.w_lo, fin.ans_lo,
                                            fin.n_questions),
                hi |-> apply_then_normalise(fin.traits, fin.w_hi, fin.ans_hi,
                                            fin.n_questions)]
    /\ UNCHANGED <<fin, sessionVars>>

CallSigmoid ==
    /\ fin.op = "_sigmoid" /\ ~fout.done
    /\ fout' = [done |-> TRUE, raised |-> FALSE,
                val |-> _sigmoid(fin.x, SIGMOID_SHARPNESS)]
    /\ UNCHANGED <<fin, sessionVars>>

CallScoringSigmoid ==
    /\ fin.op = "scoring_sigmoid" /\ ~fout.done
    /\ fout' = IF scoring_sigmoid_raises(fin.x)
               THEN [done |-> TRUE, raised |-> TRUE, val |-> 0]
               ELSE [done |-> TRUE, raised |-> FALSE, val |-> scoring_sigmoid(fin.x)]
    /\ UNCHANGED <<fin, sessionVars>>

CallSoftmax ==
    /\ fin.op = "_softmax" /\ ~fout.done
    /\ fout' = [done |-> TRUE, raised |-> FALSE,
                dist |-> _softmax(fin.scores, SOFTMAX_TEMPERATURE)]
    /\ UNCHANGED <<fin, sessionVars>>

CallScoringSoftmax ==
    /\ fin.op = "scoring_softmax" /\ ~fout.done
    /\ fout' = IF scoring_softmax_raises(fin.scores)
               THEN [done |-> TRUE, raised |-> TRUE, dist |-> <<>>]
               ELSE [done |-> TRUE, raised |-> FALSE,
                     dist |-> scoring_softmax(fin.scores)]
    /\ UNCHANGED <<fin, sessionVars>>

CallSelectQuestions ==
    /\ fin.op = "select_questions" /\ ~fout.done
    /\ \E r \in select_questions(fin.pool, fin.n, fin.used, fin.norm_traits) :
          fout' = [done |-> TRUE, result |-> r]
    /\ UNCHANGED <<fin, sessionVars>>

CallScoreAssessment ==
    /\ fin.op = "score_assessment" /\ ~fout.done
    /\ fout' = [done |-> TRUE, result |-> score_assessment(QUESTIONS, fin.answers)]
    /\ UNCHANGED <<fin, sessionVars>>

\* raw = compute_raw_scores(QUESTIONS, answers); norm = normalise(raw);
\* trait_vec = build_trait_vector(norm), on the whole bank and on the bank
\* without the items that have no answer
CallRawScores ==
    /\ fin.op = "raw_scores" /\ ~fout.done
    /\ LET raw == compute_raw_scores(SECTION_BANK, fin.answers)
           norm == normalise(raw)
       IN  fout' = [done |-> TRUE,
                    raw |-> raw,
                    norm |-> norm,
                    trait_vec |-> build_trait_vector(norm),
                    raw_answered |->
                        compute_raw_scores(
                            SelectSeq(SECTION_BANK,
                                      LAMBDA q : q.id \in DOMAIN fin.answers),
                            fin.answers)]
    /\ UNCHANGED <<fin, sessionVars>>

CallScoreNodes ==
    /\ fin.op = "score_nodes" /\ ~fout.done
    /\ fout' = [done |-> TRUE,
                probs |-> score_nodes(fin.nodes,
                              normalise_traits(fin.raw, fin.n_questions,
                                               DEFAULT_MAX_WEIGHT))]
    /\ UNCHANGED <<fin, sessionVars>>

\* CJL-PRO generate_reasoning: raw = _call_ollama(prompt)
ProCallOllama ==
    /\ fin.op = "generate_reasoning" /\ fin.variant = "CJL-PRO"
    /\ fout = [done |-> FALSE]
    /\ \E reply \in Replies :
          fout' = [done |-> FALSE,
                   at |-> IF pro_call_ollama(reply).text = <<>>
                          THEN "fallback_model" ELSE "parse",
                   requests |-> <<DEFAULT_MODEL>>,
                   replies |-> <<reply>>,
                   raw |-> pro_call_ollama(reply).text]
    /\ UNCHANGED <<fin, sessionVars>>

\* if not raw: raw = _call_ollama(prompt, FALLBACK_MODEL)
ProCallOllamaFallback ==
    /\ fin.op = "generate_reasoning" /\ fin.variant = "CJL-PRO"
    /\ ~fout.done /\ fout # [done |-> FALSE] /\ fout.at = "fallback_model"
    /\ \E reply \in Replies :
          fout' = [fout EXCEPT !.at = "parse",
                               !.requests = Append(@, FALLBACK_MODEL),
                               !.replies = Append(@, reply),
                               !.raw = pro_call_ollama(reply).text]
    /\ UNCHANGED <<fin, sessionVars>>

\* _extract_json, the test for "narrative", and the return
ProReturn ==
    /\ fin.op = "generate_reasoning" /\ fin.variant = "CJL-PRO"
    /\ ~fout.done /\ fout # [done |-> FALSE] /\ fout.at = "parse"
    /\ fout' = [done |-> TRUE, at |-> "returned",
                requests |-> fout.requests, replies |-> fout.replies,
                raw |-> fout.raw,
                raised |-> pro_result(fout.raw).raised,
                substitute |-> pro_result(fout.raw).substitute,
                value |-> pro_result(fout.raw).value]
    /\ UNCHANGED <<fin, sessionVars>>

\* CJL generate_reasoning: raw = _call_ollama(prompt); an exception it does not
\* catch ends generate_reasoning
CjlCallOllama ==
    /\ fin.op = "generate_reasoning" /\ fin.variant = "CJL"
    /\ fout = [done |-> FALSE]
    /\ \E reply \in Replies :
          LET r == cjl_call_ollama(reply)
          IN  fout' = [done |-> r.raised,
                       at |-> IF r.raised THEN "raised" ELSE "parse",
                       requests |-> <<DEFAULT_MODEL>>,
                       replies |-> <<reply>>,
                       raw |-> r.text,
                       raised |-> r.raised,
                       substitute |-> r.substitute,
                       value |-> Dict({})]
    /\ UNCHANGED <<fin, sessionVars>>

\* json.loads(raw), the extraction, the fallback, and the return
CjlReturn ==
    /\ fin.op = "generate_reasoning" /\ fin.variant = "CJL"
    /\ ~fout.done /\ fout # [done |-> FALSE] /\ fout.at = "parse"
    /\ fout' = [fout EXCEPT !.done = TRUE, !.at = "returned",
                            !.raised = cjl_result(fout.raw).raised,
                            !.substitute = @ \/ cjl_result(fout.raw).substitute,
                            !.value = cjl_result(fout.raw).value]
    /\ UNCHANGED <<fin, sessionVars>>

CallStageChain ==
    /\ fin.op = "stage_chain" /\ ~fout.done
    /\ fout' = [done |-> TRUE,
                chain |-> stage_chain(fin.sub_fields, SPECIALIZATIONS,
                             normalise_traits(fin.raw, fin.n_questions,
                                              DEFAULT_MAX_WEIGHT))]
    /\ UNCHANGED <<fin, sessionVars>>

FnIdle == fin = [op |-> "none"] /\ fout = [done |-> FALSE]

Init == (SessionInit /\ FnIdle) \/ FnInit

Next ==
    \/ BeginStage1
    \/ AnswerQuestion
    \/ ScoreStage1
    \/ BeginStage2
    \/ ScoreStage2
    \/ BeginStage3
    \/ ScoreStage3
    \/ Finish
    \/ ReasoningRaises
    \/ Interrupt
    \/ CallApplyAnswer
    \/ CallApplyAnswers
    \/ CallFloatAnswers
    \/ CallNormaliseTraits
    \/ CallNormalise
    \/ CallApplyThenNormalise
    \/ CallSigmoid
    \/ CallScoringSigmoid
    \/ CallSoftmax
    \/ CallScoringSoftmax
    \/ CallSelectQuestions
    \/ CallScoreAssessment
    \/ CallRawScores
    \/ CallScoreNodes
    \/ CallStageChain
    \/ ProCallOllama
    \/ ProCallOllamaFallback
    \/ ProReturn
    \/ CjlCallOllama
    \/ CjlReturn

Spec == Init /\ [][Next]_vars

(***************************************************************************)
(* Properties                                                              *)
(***************************************************************************)
InUnit(v) == v.den > 0 /\ 0 <= v.num /\ v.num <= v.den

\* C1: every value normalise_traits returns, for any raw vector, any
\* n_questions >= 0 and any max_weight, lies in [0,1]; so does every section
\* value scoring.normalise returns, and every value of the session's profile.
C1_NormalisedInUnitInterval ==
    /\ (fin.op = "normalise_traits" /\ fout.done)
          => \A k \in DOMAIN fout.heap[fout.ref] : InUnit(fout.heap[fout.ref][k])
    /\ (fin.op = "normalise" /\ fout.done)
          => \A k \in DOMAIN fout.norm : InUnit(fout.norm[k])
    /\ output.written
          => \A k \in DOMAIN output.trait_profile : InUnit(output.trait_profile[k])

\* a call whose raw values lie beyond the bound on both sides: the clamp acts
C1_Witness ==
    /\ fin.op = "normalise_traits" /\ fout.done
    /\ fin.n_questions = 0
    /\ fin.heap[fin.ref]["apt"] = 2000000
    /\ fin.heap[fin.ref]["I"] = -2000000
    /\ fout.heap[fout.ref]["apt"].num = fout.heap[fout.ref]["apt"].den
    /\ fout.heap[fout.ref]["I"].num = 0

\* the sum of a distribution's percentages, in hundredths times the common den
PctSum(dist) == SumSeq([i \in 1..Len(dist) |-> dist[i].pct.num])

SumsTo100(dist) ==
    dist # <<>> => Abs(PctSum(dist) - 10000 * dist[1].pct.den) <= dist[1].pct.den

\* C2: for any non-empty candidate set and any activations the percentages the
\* distribution step returns (each rounded to two decimals) sum to 100.00
\* within 0.01, in both variants of _softmax.
C2_DistributionSumsTo100 ==
    (fin.op \in {"_softmax", "scoring_softmax"} /\ fout.done /\ ~fout.raised)
        => SumsTo100(fout.dist)

\* C3: select_questions never returns a question whose id is in used_ids, in
\* the adaptive branch and in the random branch.
C3_SelectAvoidsUsed ==
    (fin.op = "select_questions" /\ fout.done)
        => \A i \in 1..Len(fout.result) : fout.result[i].id \notin fin.used

\* an adaptive call with used identifiers in the pool that returns n questions
C3_Witness ==
    /\ fin.op = "select_questions" /\ fout.done
    /\ DOMAIN fin.norm_traits # {}
    /\ fin.used = {"s1_01", "s2_tec_01"}
    /\ fin.n = 2
    /\ Len(fout.result) = 2

Unused(pool, used) == {i \in 1..Len(pool) : pool[i].id \notin used}

\* C4: select_questions returns min(n, number of unused questions) questions,
\* no question twice, and all unused questions when there are at most n, in
\* both branches.
C4_SelectSize ==
    (fin.op = "select_questions" /\ fout.done)
        => /\ Len(fout.result)
                = Min2(fin.n, Cardinality(Unused(fin.pool, fin.used)))
           /\ \A i, j \in 1..Len(fout.result) :
                 i # j => fout.result[i].id # fout.result[j].id
           /\ Cardinality(Unused(fin.pool, fin.used)) <= fin.n
                 => {fout.result[i].id : i \in 1..Len(fout.result)}
                      = {fin.pool[i].id : i \in Unused(fin.pool, fin.used)}

\* an adaptive call asking for two questions when one is unused: it returns one
C4_Witness ==
    /\ fin.op = "select_questions" /\ fout.done
    /\ DOMAIN fin.norm_traits # {}
    /\ fin.n = 2
    /\ Cardinality(Unused(fin.pool, fin.used)) = 1
    /\ Len(fout.result) = 1

\* C5: in one session used_ids only grows and no identifier is asked and fed to
\* the accumulator more than once, also when a later stage's pool holds an
\* identifier an earlier stage used.
C5_NoQuestionTwice ==
    [][/\ used_ids \subseteq used_ids'
       /\ \A q \in QuestionIds : asked'[q] <= 1
       /\ Cardinality(used_ids') = n_answers']_vars

\* stage 1 asked "s1_01"; the stage-2 pool of Science holds it too and stage 2
\* asked the other question of that pool
C5_Witness ==
    /\ pc = "prompt3"
    /\ keys.s2_pool = "Science"
    /\ asked["s1_01"] = 1
    /\ asked["s2_sci_01"] = 1

\* the answer delta as the claim states it
ClaimedDelta(label) ==
    CASE label \in {"A", "a"} -> 2
      [] label \in {"B", "b"} -> 1
      [] label \in {"D", "d"} -> -1
      [] label \in {"E", "e"} -> -2
      [] OTHER -> 0

\* C6: apply_answer returns a vector in which every trait the question declares
\* (and the accumulator has) is its old value plus delta*weight and every other
\* trait its old value, delta being +2..-2 for A..E in either case and 0 for
\* any other label.
C6_ApplyAnswerResult ==
    (fin.op = "apply_answer" /\ fout.done)
        => LET old == fin.heap[fin.ref]
               new == fout.heap[fout.ref]
               declared == IF "traits" \in DOMAIN fin.question
                           THEN DOMAIN fin.question.traits ELSE {}
           IN  /\ DOMAIN new = DOMAIN old
               /\ \A k \in DOMAIN old :
                     new[k] = IF k \in declared
                              THEN old[k] + ClaimedDelta(fin.answer)
                                              * fin.question.traits[k]
                              ELSE old[k]
               /\ ClaimedDelta(fin.answer) = 0 => new = old

\* a lower-case label on a question with weights 2.0 and -0.5
C6_Witness ==
    /\ fin.op = "apply_answer" /\ fout.done
    /\ fin.answer = "a"
    /\ fin.question.id = "s2_tec_02"
    /\ fin.heap[fin.ref]["R"] = -15
    /\ fout.heap[fout.ref]["stab"] = 40
    /\ fout.heap[fout.ref]["R"] = -25

\* C7: apply_answer and normalise_traits leave the vector passed to them as it
\* was, and return a vector that is a different object.
C7_ArgumentNotMutated ==
    (fin.op \in {"apply_answer", "normalise_traits"} /\ fout.done)
        => /\ fout.heap[fin.ref] = fin.heap[fin.ref]
           /\ fout.ref # fin.ref

\* a call of apply_answer whose result differs from its argument
C7_Witness ==
    /\ fin.op = "apply_answer" /\ fout.done
    /\ fout.heap[fout.ref] # fin.heap[fin.ref]
    /\ fout.heap[fin.ref] = fin.heap[fin.ref]

IsPrefix(s, t) == Len(s) <= Len(t) /\ SubSeq(t, 1, Len(s)) = s

\* C8: a session runs conduct_stage for stage 1, 2, 3 in this order, each once,
\* scores each stage once after its batch, and produces the result record (the
\* final normalised vector, the three ranked lists, the three winners) only on
\* reaching Done.
C8_StageOrder ==
    /\ IsPrefix(stages_run, <<1, 2, 3>>)
    /\ pc = "prompt1" => stages_run = <<>> /\ norms = <<>>
    /\ pc = "ask1" => stages_run = <<1>> /\ norms = <<>>
    /\ pc = "prompt2" => stages_run = <<1>> /\ Len(norms) = 1
    /\ pc = "ask2" => stages_run = <<1, 2>> /\ Len(norms) = 1
    /\ pc = "prompt3" => stages_run = <<1, 2>> /\ Len(norms) = 2
    /\ pc = "ask3" => stages_run = <<1, 2, 3>> /\ Len(norms) = 2
    /\ pc \in {"finish", "done"} => stages_run = <<1, 2, 3>> /\ Len(norms) = 3
    /\ (rank1 # <<>>) = (Len(norms) >= 1)
    /\ (rank2 # <<>>) = (Len(norms) >= 2)
    /\ (rank3 # <<>>) = (Len(norms) >= 3)
    /\ output.written = (pc = "done")
    /\ output.written
          => /\ output.stage_1.all_fields = rank1
             /\ output.stage_2.all_subfields = rank2
             /\ output.stage_3.all_specs = rank3
             /\ output.stage_1.field = rank1[1].name
             /\ output.stage_2.subfield = rank2[1].name
             /\ output.stage_3.specialization = rank3[1].name
             /\ output.trait_profile
                   = normalise_traits(traits, Cardinality(used_ids),
                                      DEFAULT_MAX_WEIGHT)

\* a finished session: three stages, four answers, the record written
C8_Witness ==
    /\ pc = "done"
    /\ output.written
    /\ stages_run = <<1, 2, 3>>
    /\ n_answers = STAGE1_N + STAGE2_N + STAGE3_N

\* C9 as stated: the winner's name itself is the key of both tables of the
\* next stage.
C9_WinnerNameIsKey ==
    /\ keys.s2_pool # ""
          => keys.s2_pool = rank1[1].name /\ keys.s2_tax = rank1[1].name
    /\ keys.s3_pool # ""
          => keys.s3_pool = rank2[1].name /\ keys.s3_tax = rank2[1].name

NodeNames(nodes) == {nodes[i].name : i \in 1..Len(nodes)}

\* C9 (amended): the winner's name is the key of the next stage's pool and of
\* its candidate set whenever the table has that key; otherwise stage 2 takes
\* the pool of some key and no sub-field set (it reuses rank1), and stage 3
\* takes the pool and the set of "_default_".  The batch comes from the pool of
\* that key and the ranked list from the set of that key.
C9_WinnerKeysNextStage ==
    /\ keys.s2_pool # ""
          => /\ keys.s2_pool = (IF rank1[1].name \in DOMAIN STAGE2_QUESTIONS
                                THEN rank1[1].name ELSE keys.s2_pool)
             /\ keys.s2_pool \in DOMAIN STAGE2_QUESTIONS
             /\ keys.s2_tax = (IF rank1[1].name \in DOMAIN SUB_FIELDS
                               THEN rank1[1].name ELSE "")
             /\ pc = "ask2" => Range(batch) \subseteq Range(STAGE2_QUESTIONS[keys.s2_pool])
             /\ rank2 # <<>>
                   => NodeNames(rank2) = (IF keys.s2_tax # ""
                                          THEN NodeNames(SUB_FIELDS[keys.s2_tax])
                                          ELSE NodeNames(rank1))
    /\ keys.s3_pool # ""
          => /\ keys.s3_pool = (IF rank2[1].name \in DOMAIN STAGE3_QUESTIONS
                                THEN rank2[1].name ELSE "_default_")
             /\ keys.s3_tax = (IF rank2[1].name \in DOMAIN SPECIALIZATIONS
                               THEN rank2[1].name ELSE "_default_")
             /\ pc = "ask3" => Range(batch) \subseteq Range(STAGE3_QUESTIONS[keys.s3_pool])
             /\ rank3 # <<>> => NodeNames(rank3) = NodeNames(SPECIALIZATIONS[keys.s3_tax])

\* stage 2 was won by a sub-field that has a specialization set, and stage 3
\* ranked that set
C9_Witness ==
    /\ rank3 # <<>>
    /\ rank1[1].name = "Technology"
    /\ keys.s2_pool = "Technology" /\ keys.s2_tax = "Technology"
    /\ rank2[1].name = "Software Development"
    /\ keys.s3_pool = "Software Development"
    /\ keys.s3_tax = "Software Development"

Pos(nodes, name) == CHOOSE i \in 1..Len(nodes) : nodes[i].name = name

\* ranked holds every candidate of nodes once, by non-increasing percentage,
\* equal percentages in the order of nodes
RankedInOrder(ranked, nodes) ==
    /\ Len(ranked) = Len(nodes)
    /\ NodeNames(ranked) = NodeNames(nodes)
    /\ \A i, j \in 1..Len(ranked) :
          i < j => /\ ~PctLess(ranked[i].pct, ranked[j].pct)
                   /\ PctEq(ranked[i].pct, ranked[j].pct)
                         => Pos(nodes, ranked[i].name) < Pos(nodes, ranked[j].name)

\* C10: at every stage the ranked list is ordered by non-increasing percentage,
\* equal percentages in the insertion order of the candidate mapping, and the
\* winner is the first element, so no candidate has a strictly higher
\* percentage than the winner; the same for score_assessment's ranking.
C10_RankedOrder ==
    /\ rank1 # <<>> => RankedInOrder(rank1, FIELDS)
    /\ (rank2 # <<>> /\ keys.s2_tax # "") => RankedInOrder(rank2, SUB_FIELDS[keys.s2_tax])
    /\ (rank2 # <<>> /\ keys.s2_tax = "") => rank2 = rank1
    /\ (rank3 # <<>> /\ keys.s3_tax # "")
          => RankedInOrder(rank3, SPECIALIZATIONS[keys.s3_tax])
    /\ output.written
          => /\ \A i \in 1..Len(rank1) : ~PctLess(output.stage_1.confidence, rank1[i].pct)
             /\ \A i \in 1..Len(rank2) : ~PctLess(output.stage_2.confidence, rank2[i].pct)
             /\ \A i \in 1..Len(rank3) : ~PctLess(output.stage_3.confidence, rank3[i].pct)
    /\ (fin.op = "score_assessment" /\ fout.done)
          => /\ RankedInOrder(fout.result.career_probabilities, CAREER_CLUSTERS)
             /\ fout.result.top_career_cluster
                   = fout.result.career_probabilities[1].name

\* stage 3 ranked a set in which two candidates tie below a third
C10_Witness ==
    /\ rank3 # <<>>
    /\ keys.s3_tax = "Software Development"
    /\ rank3[1].name = "Backend Engineering"
    /\ PctLess(rank3[2].pct, rank3[1].pct)
    /\ PctEq(rank3[2].pct, rank3[3].pct)
    /\ rank3[2].name = "Frontend Engineering"

\* C11: whatever candidate won the previous stage, mapped or not, every stage
\* has a non-empty ranked list and the tables are looked up with keys they
\* hold; when the stage-1 winner has no sub-field set the stage-2 ranking is
\* the stage-1 ranking, and when the stage-2 winner has no specialization set
\* stage 3 ranks the "_default_" set.
C11_FallbackRanking ==
    /\ Len(norms) >= 1 => rank1 # <<>>
    /\ Len(norms) >= 2 => rank2 # <<>>
    /\ Len(norms) >= 3 => rank3 # <<>>
    /\ keys.s2_pool # "" => keys.s2_pool \in DOMAIN STAGE2_QUESTIONS
    /\ keys.s3_pool # ""
          => /\ keys.s3_pool \in DOMAIN STAGE3_QUESTIONS
             /\ keys.s3_tax \in DOMAIN SPECIALIZATIONS
    /\ (Len(norms) >= 3 /\ rank2[1].name \notin DOMAIN SPECIALIZATIONS)
          => NodeNames(rank3) = NodeNames(SPECIALIZATIONS["_default_"])
    /\ (fin.op = "stage_chain" /\ fout.done)
          => LET c == fout.chain
                 unmapped == sub_taxonomy_get(fin.sub_fields, c.rank1[1].name) = <<>>
             IN  /\ c.rank1 # <<>> /\ c.rank2 # <<>> /\ c.rank3 # <<>>
                 /\ unmapped => c.rank2 = c.rank1
                 /\ ~unmapped
                       => NodeNames(c.rank2)
                            = NodeNames(fin.sub_fields[c.rank1[1].name])
                 /\ c.rank2[1].name \notin DOMAIN SPECIALIZATIONS
                       => NodeNames(c.rank3)
                            = NodeNames(SPECIALIZATIONS["_default_"])

\* the stage-1 winner has no sub-field set: stage 2 repeats the stage-1 ranking
\* and stage 3, whose key is then a field name, ranks the "_default_" set
C11_Witness ==
    /\ fin.op = "stage_chain" /\ fout.done
    /\ fout.chain.rank1[1].name \notin DOMAIN fin.sub_fields
    /\ fout.chain.rank2 = fout.chain.rank1
    /\ fout.chain.rank2[1].pct = fout.chain.rank1[1].pct
    /\ NodeNames(fout.chain.rank3) = NodeNames(SPECIALIZATIONS["_default_"])

\* C12: no step of the scoring pipeline raises, in either variant: the
\* normalisation bound is positive also with zero questions, an activation
\* whose exponential overflows is 0 or 1 by the sign of (x - 0.5), and the
\* distribution step returns a distribution.
C12_NoExceptionPropagates ==
    /\ (fin.op = "normalise_traits" /\ fout.done)
          => \A k \in DOMAIN fout.heap[fout.ref] : fout.heap[fout.ref][k].den > 0
    /\ (fin.op \in {"_sigmoid", "scoring_sigmoid"} /\ fout.done)
          => /\ ~fout.raised
             /\ fin.x <= -590000 => fout.val = 0
             /\ fin.x >= 1000000 => fout.val = 1000
    /\ (fin.op \in {"_softmax", "scoring_softmax"} /\ fout.done) => ~fout.raised

\* a percentage that is a finite number and not negative
FinitePct(p) == p.den > 0 /\ p.num >= 0

AllFinite(dist) == \A i \in 1..Len(dist) : FinitePct(dist[i].pct)

\* C13: every percentage the distribution step returns is finite and not
\* negative, and a candidate whose activation is 1.0 while every other
\* candidate's is 0.5 gets the strictly largest percentage.
C13_FiniteAndDominant ==
    /\ AllFinite(rank1) /\ AllFinite(rank2) /\ AllFinite(rank3)
    /\ (fin.op = "_softmax" /\ fout.done)
          => /\ AllFinite(fout.dist)
             /\ \A i \in 1..Len(fin.scores) :
                   (/\ fin.scores[i].val = 1000
                    /\ \A j \in 1..Len(fin.scores) :
                          j # i => fin.scores[j].val = 500)
                   => \A j \in 1..Len(fin.scores) :
                         j # i => PctLess(fout.dist[j].pct, fout.dist[i].pct)

\* six candidates, the fourth at 1.0 and the others at 0.5
C13_Witness ==
    /\ fin.op = "_softmax" /\ fout.done
    /\ Len(fin.scores) = MaxCandidates
    /\ fin.scores[4].val = 1000
    /\ \A j \in 1..Len(fin.scores) : j # 4 => fin.scores[j].val = 500
    /\ \A j \in 1..Len(fin.scores) :
          j # 4 => PctLess(fout.dist[j].pct, fout.dist[4].pct)
    /\ fout.dist[4].pct.num < 10000

\* the candidates of a score list whose exponential overflows
Overflowed(scores) ==
    {i \in 1..Len(scores) : scores[i].val * SOFTMAX_TEMPERATURE > 709782}

\* C14: when the exponential of at least one candidate overflows, each
\* overflowed candidate gets 100 divided by the number of overflowed
\* candidates and every other candidate gets 0.
C14_OverflowSplit ==
    (fin.op = "_softmax" /\ fout.done /\ Overflowed(fin.scores) # {})
        => \A i \in 1..Len(fin.scores) :
              LET p == fout.dist[i].pct
              IN  /\ p.den > 0
                  /\ i \in Overflowed(fin.scores)
                        => p.num * Cardinality(Overflowed(fin.scores)) = 10000 * p.den
                  /\ i \notin Overflowed(fin.scores) => p.num = 0

\* three overflowed candidates among five: a third of 100 each, 0 for the rest
C14_Witness ==
    /\ fin.op = "_softmax" /\ fout.done
    /\ Len(fin.scores) = 5
    /\ Overflowed(fin.scores) = {1, 3, 4}
    /\ fout.dist[3].pct = [num |-> 10000, den |-> 3]
    /\ fout.dist[2].pct.num = 0 /\ fout.dist[5].pct.num = 0
    /\ fin.scores[2].val = 1000

\* C15 as stated: with the answer fixed a larger weight, and with the weight
\* fixed a larger answer delta, never gives the trait a smaller normalised value.
C15_MonotoneInWeightOrDelta ==
    (fin.op = "apply_normalise" /\ fout.done)
        => /\ (fin.ans_lo = fin.ans_hi /\ fin.w_lo <= fin.w_hi)
                 => ~PctLess(fout.hi["I"], fout.lo["I"])
           /\ (fin.w_lo = fin.w_hi
                 /\ likert_delta(fin.ans_lo) <= likert_delta(fin.ans_hi))
                 => ~PctLess(fout.hi["I"], fout.lo["I"])

\* C15 (amended): a larger increment delta*weight never gives the trait a
\* smaller normalised value; so a larger weight does not when the delta is not
\* negative, and a larger delta does not when the weight is not negative.
C15_MonotoneInIncrement ==
    (fin.op = "apply_normalise" /\ fout.done)
        => /\ likert_delta(fin.ans_lo) * fin.w_lo <= likert_delta(fin.ans_hi) * fin.w_hi
                 => ~PctLess(fout.hi["I"], fout.lo["I"])
           /\ (fin.ans_lo = fin.ans_hi /\ fin.w_lo <= fin.w_hi
                 /\ likert_delta(fin.ans_lo) >= 0)
                 => ~PctLess(fout.hi["I"], fout.lo["I"])
           /\ (fin.w_lo = fin.w_hi /\ fin.w_lo >= 0
                 /\ likert_delta(fin.ans_lo) <= likert_delta(fin.ans_hi))
                 => ~PctLess(fout.hi["I"], fout.lo["I"])

\* the answer "A" with weight 1.0 and with weight 2.0: the value grows
C15_Witness ==
    /\ fin.op = "apply_normalise" /\ fout.done
    /\ fin.ans_lo = "A" /\ fin.ans_hi = "A"
    /\ fin.w_lo = 10 /\ fin.w_hi = 20
    /\ fin.n_questions = 1
    /\ fin.traits = empty_traits
    /\ PctLess(fout.lo["I"], fout.hi["I"])

\* exactly 0.5
IsHalf(v) == v.den > 0 /\ 2 * v.num = v.den

\* C16: normalise_traits of the empty accumulator with n_questions = 0 gives
\* exactly 0.5 for every trait, and so does n_questions = 1, which is what
\* conduct_stage passes at the start of stage 1.
C16_EmptyAccumulatorIsHalf ==
    /\ (/\ fin.op = "normalise_traits" /\ fout.done
        /\ fin.heap[fin.ref] = empty_traits
        /\ fin.n_questions \in {0, 1}
        /\ fin.max_weight = DEFAULT_MAX_WEIGHT)
          => \A k \in Range(TRAIT_KEYS) : IsHalf(fout.heap[fout.ref][k])
    /\ (pc \in {"prompt1", "ask1"} /\ used_ids = {})
          => /\ traits = empty_traits
             /\ \A k \in Range(TRAIT_KEYS) : IsHalf(conduct_stage_norm[k])
             /\ conduct_stage_norm = normalise_traits(empty_traits, 1, DEFAULT_MAX_WEIGHT)

\* the call with n_questions = 0: bound 1.0, every trait (0 + 1.0) / 2.0
C16_Witness ==
    /\ fin.op = "normalise_traits" /\ fout.done
    /\ fin.heap[fin.ref] = empty_traits
    /\ fin.n_questions = 0
    /\ fin.max_weight = DEFAULT_MAX_WEIGHT
    /\ \A k \in Range(TRAIT_KEYS) : fout.heap[fout.ref][k] = [num |-> 10, den |-> 20]

\* C17: from the empty accumulator, one answer with a positive delta to a
\* question that declares a positive weight for the single trait "I",
\* normalised with n_questions = 1 and max_weight = 2.0, gives "I" a value
\* strictly above 0.5 and every other trait exactly 0.5.
C17_SingleAnswerRaisesTrait ==
    (/\ fin.op = "apply_normalise" /\ fout.done
     /\ fin.traits = empty_traits
     /\ fin.n_questions = 1
     /\ fin.w_hi > 0
     /\ LIKERT_MAP[fin.ans_hi] > 0)
        => /\ fout.hi["I"].den > 0
           /\ 2 * fout.hi["I"].num > fout.hi["I"].den
           /\ \A k \in Range(TRAIT_KEYS) \ {"I"} : IsHalf(fout.hi[k])

\* the spec's scenario: weight {I: 1.0} answered "A" gives (2.0 + 4.0) / 8.0
C17_Witness ==
    /\ fin.op = "apply_normalise" /\ fout.done
    /\ fin.traits = empty_traits
    /\ fin.n_questions = 1
    /\ fin.w_hi = 10 /\ fin.ans_hi = "A"
    /\ fout.hi["I"] = [num |-> 60, den |-> 80]
    /\ fout.hi["apt"] = [num |-> 40, den |-> 80]

\* all candidates of the list carry the same trait-weight mapping
IdenticalWeights(nodes) ==
    \A i, j \in 1..Len(nodes) : nodes[i].trait_weights = nodes[j].trait_weights

\* p, in hundredths of a percent, is 100/n rounded to two decimals
IsUniformShare(p, n) ==
    /\ p.den = 1
    /\ 2 * Abs(p.num * n - 10000) <= n

\* C18: score_nodes of candidates that all have the same trait-weight vector
\* gives every candidate the same percentage, 100 divided by the number of
\* candidates rounded to two decimals.
C18_IdenticalWeightsUniform ==
    (fin.op = "score_nodes" /\ fout.done /\ IdenticalWeights(fin.nodes))
        => /\ Len(fout.probs) = Len(fin.nodes)
           /\ \A i \in 1..Len(fout.probs) :
                 /\ fout.probs[i].name = fin.nodes[i].name
                 /\ fout.probs[i].pct = fout.probs[1].pct
                 /\ IsUniformShare(fout.probs[i].pct, Len(fin.nodes))

\* three identical candidates scored against a non-neutral vector: 33.33 each
C18_Witness ==
    /\ fin.op = "score_nodes" /\ fout.done
    /\ Len(fin.nodes) = 3
    /\ IdenticalWeights(fin.nodes)
    /\ fin.raw # empty_traits
    /\ \A i \in 1..3 : fout.probs[i].pct = [num |-> 3333, den |-> 1]

RequiredKeys == {"narrative", "strengths", "growth_areas", "key_insight"}

\* every request of the call was answered with a response text
ServiceReturnedText ==
    \A i \in 1..Len(fout.replies) : fout.replies[i].kind = "response"

\* C19: whatever text the narrative service returns, generate_reasoning, in
\* both variants, returns without raising, and its result has the keys
\* narrative, strengths, growth_areas and key_insight.
C19_ReasoningAlwaysComplete ==
    (fin.op = "generate_reasoning" /\ fout.done /\ ServiceReturnedText)
        => /\ ~fout.raised
           /\ fout.value.type = "dict"
           /\ RequiredKeys \subseteq fout.value.keys

\* the request to the primary target timed out or failed
PrimaryFailed == fout.replies[1].kind # "response"

\* C20: when the request to the primary target times out or fails, exactly one
\* further request goes to the secondary target; the local substitute is used
\* only after the secondary was tried; the secondary is not contacted when the
\* primary returned a text; and generate_reasoning returns to its caller.
C20_SecondaryThenSubstitute ==
    (fin.op = "generate_reasoning" /\ fout.done)
        => /\ PrimaryFailed => fout.requests = <<DEFAULT_MODEL, FALLBACK_MODEL>>
           /\ (PrimaryFailed /\ fout.substitute) => Len(fout.requests) = 2
           /\ (~PrimaryFailed /\ fout.replies[1].text # <<>>)
                 => fout.requests = <<DEFAULT_MODEL>>
           /\ (\A i \in 1..Len(fout.replies) : fout.replies[i].kind # "response")
                 => ~fout.raised

\* C21: an interrupt at a blocking read, at a question or at a prompt between
\* stages, ends the session at once: the step that leaves asks no question,
\* scores no stage and writes no result, and nothing happens afterwards.
C21_InterruptEndsSession ==
    [][/\ pc = "exited" => UNCHANGED sessionVars
       /\ (pc # "exited" /\ pc' = "exited")
             => /\ ~demo
                /\ ~output'.written
                /\ asked' = asked /\ n_answers' = n_answers
                /\ used_ids' = used_ids /\ traits' = traits
                /\ stages_run' = stages_run /\ norms' = norms
                /\ rank1' = rank1 /\ rank2' = rank2 /\ rank3' = rank3]_vars

\* interrupted at the second question of stage 1, after one answer
C21_Witness ==
    /\ pc = "exited"
    /\ n_answers = 1
    /\ batch # <<>>
    /\ stages_run = <<1>>
    /\ norms = <<>>
    /\ ~output.written

\* C22: an interrupt at a blocking read ends the process with a non-zero
\* exit code, at every point where the session reads input.
C22_InterruptExitsNonZero ==
    pc = "exited" => (Len(exit_code) = 1 /\ exit_code[1] # 0)

\* the question without the keys that are no trait identifiers
KnownTraitsOnly(q) ==
    [q EXCEPT !.traits = [k \in DOMAIN q.traits \cap Range(TRAIT_KEYS) |-> q.traits[k]]]

\* the pairs with every question reduced to its known keys
KnownPairs(pairs) ==
    [i \in 1..Len(pairs) |->
        [question |-> KnownTraitsOnly(pairs[i].question), answer |-> pairs[i].answer]]

\* some question of the pairs declares a key that is no trait identifier
HasUnknownKey(pairs) ==
    \E i \in 1..Len(pairs) : ~(DOMAIN pairs[i].question.traits \subseteq Range(TRAIT_KEYS))

\* C23: keys of a question that are no trait identifiers are ignored by
\* apply_answer: after any run of calls from empty_traits the accumulator has
\* exactly the nine trait keys, and its values are those the same answers give
\* when the unknown keys are left out of the questions.
C23_UnknownKeysIgnored ==
    /\ (fin.op = "apply_answers" /\ fout.done /\ fin.traits = empty_traits)
          => /\ DOMAIN fout.traits = Range(TRAIT_KEYS)
             /\ fout.traits = apply_answers(empty_traits, KnownPairs(fin.pairs))
    /\ DOMAIN traits = Range(TRAIT_KEYS)

\* two answers, the second to the question that declares "zz"
C23_Witness ==
    /\ fin.op = "apply_answers" /\ fout.done
    /\ fin.traits = empty_traits
    /\ Len(fin.pairs) = 2
    /\ fin.pairs[2].question.id = "r_04" /\ fin.pairs[2].answer = "A"
    /\ fin.pairs[1].question.id = "r_01" /\ fin.pairs[1].answer = "A"
    /\ HasUnknownKey(fin.pairs)
    /\ fout.traits = [empty_traits EXCEPT !["I"] = 60]

\* the informativeness the claim defines, times the common denominator of the
\* normalised vector: the sum over q's declared traits of
\* (1 - 2*|norm[t] - 0.5|) * weight, a missing trait read as 0.5
ClaimedInformativeness(q, norm) ==
    LET den == norm[TRAIT_KEYS[1]].den
    IN  SumOver(DOMAIN q.traits,
                [t \in DOMAIN q.traits |->
                    (IF t \in DOMAIN norm
                     THEN den - Abs(2 * norm[t].num - den)
                     ELSE den) * q.traits[t]])

\* the unused questions of the pool that are strictly more informative than q
MoreInformative(pool, used, norm, q) ==
    {i \in Unused(pool, used) :
        ClaimedInformativeness(pool[i], norm) > ClaimedInformativeness(q, norm)}

\* C24: with a trait vector supplied, every question select_questions returns
\* is among the 2n most informative unused questions: fewer than 2n unused
\* questions are strictly more informative than it.
C24_SelectedAmongTop2n ==
    (fin.op = "select_questions" /\ fout.done /\ DOMAIN fin.norm_traits # {})
        => \A i \in 1..Len(fout.result) :
              Cardinality(MoreInformative(fin.pool, fin.used, fin.norm_traits,
                                          fout.result[i])) < 2 * fin.n

\* one question asked of five unused ones with a non-neutral vector: the one
\* returned is the second most informative, three are left outside the top two
C24_Witness ==
    /\ fin.op = "select_questions" /\ fout.done
    /\ fin.n = 1 /\ fin.used = {}
    /\ fin.norm_traits # <<>>
    /\ fin.norm_traits["I"].num # fin.norm_traits["apt"].num
    /\ Len(fout.result) = 1
    /\ Cardinality(MoreInformative(fin.pool, fin.used, fin.norm_traits,
                                   fout.result[1])) = 1

\* C25: at each stage boundary the question count passed to normalise_traits
\* for scoring is the number of answers applied to the accumulator since the
\* start of the session, over all stages so far.
C25_CountIsCumulative ==
    [][norms' # norms
          => /\ norms' = Append(norms, n_answers)
             /\ n_answers' = n_answers
             /\ \A i \in 1..Len(norms) : norms[i] <= n_answers]_vars

\* stage 2 scored: its count covers the answers of stages 1 and 2
C25_Witness ==
    /\ pc = "prompt3"
    /\ Len(norms) = 2
    /\ norms[1] = STAGE1_N
    /\ norms[2] = n_answers
    /\ norms[2] > norms[1]

\* |a - 0.5| <= |b - 0.5| for two normalised values
NoFartherFromHalf(a, b) ==
    Abs(2 * a.num - a.den) * b.den <= Abs(2 * b.num - b.den) * a.den

\* C26: for a fixed raw value and a fixed max_weight, normalise_traits with a
\* larger n_questions never gives a value farther from 0.5.
C26_DriftTowardsHalf ==
    (fin.op = "normalise_traits" /\ fout.done)
        => \A n2 \in fin.n_questions..(MaxNQuestions + 1) :
              \A k \in Range(TRAIT_KEYS) :
                 NoFartherFromHalf(
                     normalise_traits(fin.heap[fin.ref], n2, fin.max_weight)[k],
                     fout.heap[fout.ref][k])

\* raw 0.1 with one question is 0.5125, with two questions 0.50625
C26_Witness ==
    /\ fin.op = "normalise_traits" /\ fout.done
    /\ fin.n_questions = 1
    /\ fin.max_weight = DEFAULT_MAX_WEIGHT
    /\ fin.heap[fin.ref]["I"] = 1
    /\ fout.heap[fout.ref]["I"] = [num |-> 41, den |-> 80]
    /\ normalise_traits(fin.heap[fin.ref], 2, fin.max_weight)["I"]
          = [num |-> 81, den |-> 160]

\* every weight of every question of the pairs is at most 2.0 in absolute value
WeightsWithinTwo(pairs) ==
    \A i \in 1..Len(pairs) :
       \A t \in DOMAIN pairs[i].question.traits :
          Abs(pairs[i].question.traits[t]) <= 20

\* C27: after k >= 1 answers, from the empty accumulator, to questions whose
\* weights are at most 2.0 in absolute value, every raw total is within 4k, the
\* bound of normalise_traits for n_questions = k and the default max_weight,
\* so the clamp changes nothing; the same in the session.
C27_RawWithinBound ==
    /\ (/\ fin.op = "apply_answers" /\ fout.done
        /\ fin.traits = empty_traits
        /\ WeightsWithinTwo(fin.pairs))
          => /\ \A t \in Range(TRAIT_KEYS) :
                   Abs(fout.traits[t]) <= 40 * Len(fin.pairs)
             /\ normalise_bound(Len(fin.pairs), DEFAULT_MAX_WEIGHT)
                   = 40 * Len(fin.pairs)
             /\ normalise_traits(fout.traits, Len(fin.pairs), DEFAULT_MAX_WEIGHT)
                   = normalise_traits_unclamped(fout.traits, Len(fin.pairs),
                                                DEFAULT_MAX_WEIGHT)
    /\ n_answers >= 1
          => /\ \A t \in Range(TRAIT_KEYS) : Abs(traits[t]) <= 40 * n_answers
             /\ normalise_traits(traits, n_answers, DEFAULT_MAX_WEIGHT)
                   = normalise_traits_unclamped(traits, n_answers,
                                                DEFAULT_MAX_WEIGHT)

\* "A" twice to the question of weight 2.0: the raw total 8.0 is the bound
C27_Witness ==
    /\ fin.op = "apply_answers" /\ fout.done
    /\ fin.traits = empty_traits
    /\ Len(fin.pairs) = 2
    /\ fout.traits["I"] = 80
    /\ normalise_traits(fout.traits, 2, DEFAULT_MAX_WEIGHT)["I"]
          = [num |-> 160, den |-> 160]

\* C28 as stated: the same answers applied in any order, from the same
\* starting value, give the same raw total.
C28_OrderIndependent ==
    /\ (fin.op = "apply_answers" /\ fout.done) => fout.reordered = {fout.traits}
    /\ (fin.op = "float_answers" /\ fout.done) => fout.reordered = {fout.total}

\* the start and every weight of the run are multiples of 0.5
HalvesOnly(start, pairs) ==
    /\ start = FloatZero
    /\ \A i \in 1..Len(pairs) : pairs[i].w = "w05"

\* C28 (amended): the order of the answers does not matter for the raw totals
\* in exact arithmetic, and for the doubles the program keeps when every sum is
\* exact, as with weights that are multiples of 0.5; every order then gives
\* the same total.
C28_OrderIndependentWhenExact ==
    /\ (fin.op = "apply_answers" /\ fout.done) => fout.reordered = {fout.traits}
    /\ (fin.op = "float_answers" /\ fout.done /\ HalvesOnly(fin.start, fin.pairs))
          => fout.reordered = {fout.total}

\* two different answers to questions of weight 0.5: 1.0 + 0.5 in either order
C28_Witness ==
    /\ fin.op = "float_answers" /\ fout.done
    /\ HalvesOnly(fin.start, fin.pairs)
    /\ Len(fin.pairs) = 2
    /\ fin.pairs[1].answer = "A" /\ fin.pairs[2].answer = "B"
    /\ fout.reordered = {fout.total}
    /\ fout.total.e = -52

\* C29: a session in demo mode ends nowhere but in Done, and the number of
\* questions asked, which is the size of used_ids and the questions_asked of
\* the result, is at most n1 + n2 + n3, each stage asking at most its own n.
C29_DemoSessionCompletes ==
    /\ demo => pc \notin {"exited", "crashed"}
    /\ n_answers = Cardinality(used_ids)
    /\ n_answers + Len(batch) <= STAGE1_N + STAGE2_N + STAGE3_N
    /\ Len(batch) <= StageN(Len(stages_run))
    /\ \A i \in 1..Len(norms) :
          norms[i] - (IF i = 1 THEN 0 ELSE norms[i - 1]) <= StageN(i)
    /\ output.written => output.questions_asked = n_answers

\* C30: in the section-based scorer items without an answer add nothing to the
\* raw scores; with k answered items of a section a personality raw score lies
\* in [-2k, 2k] and the aptitude raw score in [0, k]; with at most 20
\* personality and 40 aptitude items per section every normalised value is in
\* [0, 1] with the clamps of normalise idle, and stab = 1 - NEUROTICISM is in
\* [0, 1].
answered_in(s, answers) ==
    Cardinality({i \in DOMAIN SECTION_BANK :
                    /\ SECTION_BANK[i].section = s
                    /\ SECTION_BANK[i].id \in DOMAIN answers})

C30_SectionScoresInRange ==
    (fin.op = "raw_scores" /\ fout.done) =>
        /\ fout.raw = fout.raw_answered
        /\ \A s \in PERSONALITY_SECTIONS :
              /\ fout.raw[s] >= -2 * answered_in(s, fin.answers)
              /\ fout.raw[s] <= 2 * answered_in(s, fin.answers)
              /\ fout.norm[s].num = fout.raw[s] + SECTION_MAX[s]
              /\ fout.norm[s].den = 2 * SECTION_MAX[s]
        /\ fout.raw[APTITUDE_SECTION] >= 0
        /\ fout.raw[APTITUDE_SECTION] <= answered_in(APTITUDE_SECTION, fin.answers)
        /\ fout.norm[APTITUDE_SECTION].num = fout.raw[APTITUDE_SECTION]
        /\ fout.norm[APTITUDE_SECTION].den = SECTION_MAX[APTITUDE_SECTION]
        /\ \A s \in DOMAIN fout.norm :
              fout.norm[s].num >= 0 /\ fout.norm[s].num <= fout.norm[s].den
        /\ fout.trait_vec.stab.num >= 0
        /\ fout.trait_vec.stab.num <= fout.trait_vec.stab.den
        /\ fout.trait_vec.stab.num
              = fout.norm["NEUROTICISM"].den - fout.norm["NEUROTICISM"].num

\* every item of the bank answered with the label that scores highest: the
\* aptitude and NEUROTICISM values are exactly 1 and stab is exactly 0
C30_Witness ==
    /\ fin.op = "raw_scores" /\ fout.done
    /\ answered_in(APTITUDE_SECTION, fin.answers) = SECTION_N[APTITUDE_SECTION]
    /\ answered_in("NEUROTICISM", fin.answers) = SECTION_N["NEUROTICISM"]
    /\ fout.raw[APTITUDE_SECTION] = SECTION_MAX[APTITUDE_SECTION]
    /\ fout.raw["NEUROTICISM"] = SECTION_MAX["NEUROTICISM"]
    /\ fout.norm["NEUROTICISM"].num = fout.norm["NEUROTICISM"].den
    /\ fout.trait_vec.stab.num = 0

====
